---- MODULE Spec2Model ----
(***************************************************************************)
(* Model of the motion-planning core of the manipulator project:           *)
(*   - RRTStarPlanner          (src/src/path_planning/rrt_star.py)         *)
(*   - DifferentialIKSolver    (src/src/ik_solver/ik_solver.py)            *)
(*   - ObstacleTracker         (src/src/obstacle_tracker/obstacle_tracker.py) *)
(*                                                                         *)
(* Arithmetic.  The code works on floats.  The model works on integers     *)
(* and is exact on them: a joint configuration is a pair of integers, a    *)
(* Euclidean norm is compared through its square wherever the code only    *)
(* compares it, and is taken as an integer square root wherever the code   *)
(* stores it in a cost or a configuration.  The inputs of the planner      *)
(* (start, goal, samples, parameters) are chosen so that every value the   *)
(* code stores on them is an integer that the doubles of the code compute  *)
(* without rounding; ExactOnInputs states this of every reachable state.   *)
(* The scenario of two joints and the IK solver work on values that are    *)
(* not doubles (multiples of 0.1/507 rad and of 1e-4 rad): there the code  *)
(* computes the values of the model up to rounding, a comparison of two    *)
(* values that are equal in the model is decided by the rounding and is a  *)
(* choice of the model, and ExactOnScenarioInputs and ExactOnIKInputs      *)
(* state that every other comparison is between different values.          *)
(* Cartesian lengths are in units of 1/640 m: 0.05 m is 32 units and 0.01 m *)
(* is 32/5 units.  The link positions, the base heights and the obstacle   *)
(* radii of the model are multiples of 5 units, that is of 1/128 m, which   *)
(* doubles hold exactly.                                                   *)
(*                                                                         *)
(* Python values.  plan() subtracts configurations with the - operator,    *)
(* which numpy defines for an ndarray with an ndarray or a list and which  *)
(* Python does not define for two lists.  The model therefore keeps, for   *)
(* the goal and for every tree node, whether the value is an ndarray or a  *)
(* list, and a subtraction of two lists ends plan() with a TypeError.      *)
(* The trajectory smoother is the one place where the code's result rests  *)
(* on rounding itself; there the model computes in IEEE 754 binary64, the  *)
(* format of Python's floats, and rounds every operation as the code does. *)
(***************************************************************************)
EXTENDS Integers, Sequences, FiniteSets, TLC

VARIABLES
    \* ---- RRTStarPlanner ------------------------------------------------
    nodes,            \* self.nodes    : sequence of configurations
    node_types,       \* Python type of each element of self.nodes: "ndarray" or "list"
    costs,            \* self.costs    : sequence of costs
    parents,          \* self.parents  : sequence of 0-based parent indices, -1 for the root
    max_iterations,   \* self.max_iterations (constructor argument)
    goal_sample_rate, \* self.goal_sample_rate (constructor argument), in hundredths
    step_size,        \* self.step_size      (constructor argument)
    search_radius,    \* self.search_radius  (constructor argument)
    goal_threshold,   \* self.goal_threshold (constructor argument)
    base_height,      \* self.robot.pos[2]
    obstacles,        \* self.obstacle_tracker.get_all_obstacle_states()
    debug_lines,      \* len(self.debug_lines)
    pc,               \* position of plan(): "idle", "loop", "done", "raised"
    iter,             \* loop variable i of plan()
    start_config,     \* argument of plan()
    goal_config,      \* argument of plan()
    goal_type,        \* Python type of goal_config: "ndarray" or "list"
    ret,              \* how plan() ended: [kind, path, cost, idx, line]
    last,             \* record of what the last loop iteration did (history)
    stale,            \* history: 0-based indices attached to a parent that was rewired afterwards
    \* ---- DifferentialIKSolver and the simulator it talks to --------------
    use_shadow_client,  \* self.use_shadow_client (constructor argument)
    damping,            \* self.damping (constructor argument), in thousandths
    robot_joints,       \* joint state of the displayed robot, physics client 0
    shadow_joints,      \* joint state of the shadow robot (<< >> without shadow client)
    ik_pc,              \* position of solve(): "idle", "loop", "done"
    ik_iter,            \* number of loop iterations of solve() entered so far
    current_joints,     \* local current_joints of solve()
    ik_args,            \* arguments of solve(): [target, initial, max_iters]
    ik_ret,             \* what solve() returned
    ik_hist,            \* history of the call: what was measured and updated
    \* ---- the simulator's robot and a call of the validity checker --------
    sim_joints,         \* p.getJointState of the arm joints of self.robot
    vc_pc,              \* "idle" before a call, "done" after it
    vc_call,            \* the call: [fn, arg]
    vc_ret,             \* what the call returned
    vc_before,          \* history: sim_joints when the call was made
    \* ---- a call of generate_smooth_trajectory ---------------------------
    sm_pc,              \* "idle", "done" or "raised"
    sm_path,            \* argument path
    sm_steps,           \* argument smoothing_steps
    sm_ret,             \* the returned trajectory
    \* ---- a call of _sample_random_config ---------------------------------
    sr_pc,              \* "loop" inside the for loop, "done" after the return
    sr_attempts,        \* number of loop iterations (validity checks) made so far
    sr_config,          \* local config: the last configuration drawn
    sr_ret,             \* the returned configuration
    sr_hist,            \* history: [passed]: the returned sample passed its check
    \* ---- ObstacleTracker -------------------------------------------------
    n_obstacles,        \* self.n_obstacles
    latest_positions,   \* self.latest_positions : n_obstacles rows <<x, y, z>>
    latest_radius,      \* self.latest_radius    : n_obstacles radii
    ot_pc,              \* "idle" after construction, "updated" after an update
    ot_detections       \* argument detections of the last update

pvars == <<nodes, node_types, costs, parents, max_iterations, goal_sample_rate,
           step_size, search_radius, goal_threshold, base_height, obstacles, debug_lines,
           pc, iter, start_config, goal_config, goal_type, ret, last, stale>>

ikvars == <<use_shadow_client, damping, robot_joints, shadow_joints, ik_pc, ik_iter,
            current_joints, ik_args, ik_ret, ik_hist>>

vcvars == <<sim_joints, vc_pc, vc_call, vc_ret, vc_before>>

smvars == <<sm_pc, sm_path, sm_steps, sm_ret>>

srvars == <<sr_pc, sr_attempts, sr_config, sr_ret, sr_hist>>

otvars == <<n_obstacles, latest_positions, latest_radius, ot_pc, ot_detections>>

vars == <<pvars, ikvars, vcvars, smvars, srvars, otvars>>

-----------------------------------------------------------------------------
(* Bounds of the model                                                     *)

MaxIter == 4

\* largest max_iters passed to solve()
MaxIKIters == 3

-----------------------------------------------------------------------------
(* Robot description and inputs used by the model.  Joint-space lengths    *)
(* are in one integer unit.  The sample points lie on the rays of          *)
(* direction (3, 4) / 5 and (1, 0) from the tree nodes they are steered    *)
(* from, so that a step of length 5 ends on an integer point.  The joint   *)
(* limits are 0.0 and 8.0 for the first joint and -8.0 and 8.0 for the     *)
(* second: random.uniform(low, high) is low + (high - low) * random()      *)
(* with random() a multiple of 2^-53 in [0, 1), which for these limits is  *)
(* computed without rounding, returns every integer from low to high - 1   *)
(* and never returns high.                                                 *)

Infinity == 1000000

lower_limits == <<0, -8>>
upper_limits == <<8, 8>>

\* Values random.uniform can return that the model enumerates: every
\* coordinate is at least the lower and below the upper limit of its joint.
SampleSet == {<<3, 4>>, <<6, 0>>, <<6, -8>>, <<3, 0>>, <<4, 0>>}

StartSet == {<<0, 0>>}
GoalSet == {<<4, 0>>, <<5, 0>>, <<6, 0>>}

\* Python types a caller passes for start_config and goal_config
ConfigTypes == {"ndarray", "list"}

\* values of search_radius: the step size, and a radius below it
SearchRadii == {4, 5}

BaseHeights == {0, 45}
ObstacleSets == {<< >>, <<[position |-> <<120, 0, 5>>, radius |-> 5]>>}

-----------------------------------------------------------------------------
(* Arithmetic helpers                                                      *)

Sq(x) == x * x

Abs(x) == IF x < 0 THEN -x ELSE x

\* the largest r with r * r <= n, found by bisection
ISqrt(n) ==
    LET RECURSIVE search(_, _)
        search(lo, hi) ==
            IF lo = hi THEN lo
            ELSE LET mid == (lo + hi + 1) \div 2
                 IN IF mid * mid <= n THEN search(mid, hi) ELSE search(lo, mid - 1)
    IN search(0, IF n < 46340 THEN n ELSE 46340)

IsSquare(n) == Sq(ISqrt(n)) = n

\* squared Euclidean distance of two vectors of equal length
Dist2(a, b) ==
    LET RECURSIVE sum(_)
        sum(k) == IF k = 0 THEN 0 ELSE Sq(a[k] - b[k]) + sum(k - 1)
    IN sum(Len(a))

\* np.linalg.norm(a - b); exact where Dist2(a, b) is a perfect square
Norm(a, b) == ISqrt(Dist2(a, b))

\* c1 + sqrt(x1) < c2 + sqrt(x2) for integers c1, c2 and squared lengths
\* x1, x2, decided without taking a root that is not an integer
LessSum(c1, x1, c2, x2) ==
    IF IsSquare(x1) /\ IsSquare(x2)
    THEN c1 + ISqrt(x1) < c2 + ISqrt(x2)
    ELSE LET a == c2 - c1
         IN IF a = 0 THEN x1 < x2
            ELSE IF a < 0
            THEN \* sqrt(x1) + |a| < sqrt(x2)
                 LET e == x2 - x1 - a * a
                 IN e > 0 /\ 4 * a * a * x1 < e * e
            ELSE \* not (a + sqrt(x2) <= sqrt(x1))
                 LET e == x1 - x2 - a * a
                 IN ~(e >= 0 /\ 4 * a * a * x2 <= e * e)

\* a - b of two configuration values raises TypeError: both are lists
SubRaises(a_type, b_type) == a_type = "list" /\ b_type = "list"

-----------------------------------------------------------------------------
(* Forward kinematics of the simulated robot (p.getLinkState).  The robot  *)
(* of the model has two arm joints; links 1 and 2 are the arm links, link  *)
(* 3 is the end effector.  Cartesian lengths are in units of 1/640 m.       *)

arm_idx == <<1, 2>>
ee_idx == 3

LinkPos(q, link) ==
    IF link = 1 THEN <<20 * q[1], 0, 5>>
    ELSE IF link = 2 THEN <<20 * q[1], 5 * q[2], 5>>
    ELSE <<20 * q[1], 5 * q[2], 50 + 5 * q[2]>>

\* _get_current_ee_pose: sets the joints, reads the end effector, restores the joints
GetCurrentEEPose(joint_positions) == LinkPos(joint_positions, ee_idx)

-----------------------------------------------------------------------------
(* Validity checker                                                        *)

\* variant of TooClose with <= for the < of line 197
TooCloseInclusive(link_pos, obstacle) ==
    Dist2(link_pos, obstacle.position) <= Sq(obstacle.radius + 32)

\* line 197: dist < obstacle_radius + 0.05 with 0.05 m = 32 units, decided
\* on the squares.  Between multiples of 5 units the two sides are never
\* equal and differ by far more than the rounding of the doubles; they are
\* equal for radius 0 and a link 32 units from the centre along one axis,
\* where the doubles compute dist = 0.05 and 0 + 0.05 = 0.05.
TooClose(link_pos, obstacle) ==
    Dist2(link_pos, obstacle.position) < Sq(obstacle.radius + 32)

\* line 173: obstacle_states is None or len(obstacle_states) == 0;
\* get_all_obstacle_states returns a list, never None
NoObstacleShortcut == Len(obstacles) = 0

IsStateInCollision(joint_pos) ==
    LET links_to_check == arm_idx \o <<ee_idx>>
    IN IF NoObstacleShortcut
       THEN FALSE
       ELSE \E l \in 1..Len(links_to_check) : \E o \in 1..Len(obstacles) :
                TooClose(LinkPos(joint_pos, links_to_check[l]), obstacles[o])

\* ee_pos[2] > base_height + 0.01 with 0.01 m = 32/5 units
IsEEHeightValid(joint_pos) ==
    5 * GetCurrentEEPose(joint_pos)[3] > 5 * base_height + 32

IsCollisionFree(joints) ==
    IsEEHeightValid(joints) /\ ~IsStateInCollision(joints)

-----------------------------------------------------------------------------
(* Tree queries.  Indices are 0-based as in the code; Node(ns, i) is       *)
(* ns[i] of the code.                                                      *)

Node(ns, i) == ns[i + 1]

Indices(ns) == 0..(Len(ns) - 1)

\* line 127 evaluates point - node for every node of the tree
FindNearestRaises(ts, point_type) ==
    \E i \in 1..Len(ts) : SubRaises(point_type, ts[i])

\* dists.index(min(dists)): the lowest index among the nearest nodes
FindNearest(ns, point) ==
    CHOOSE i \in Indices(ns) :
        \A j \in Indices(ns) :
            \/ Dist2(point, Node(ns, i)) < Dist2(point, Node(ns, j))
            \/ Dist2(point, Node(ns, i)) = Dist2(point, Node(ns, j)) /\ i <= j

\* variant of FindNearby that reports the indices within twice search_radius
FindNearbyTwiceRadius(ns, point) ==
    LET RECURSIVE collect(_)
        collect(i) ==
            IF i = Len(ns) THEN << >>
            ELSE IF Dist2(point, Node(ns, i)) <= Sq(2 * search_radius)
                 THEN <<i>> \o collect(i + 1)
                 ELSE collect(i + 1)
    IN collect(0)

\* KDTree(self.nodes).query_ball_point(point, self.search_radius): the
\* indices at distance <= search_radius.  For a tree of at most leafsize
\* (10) points the k-d tree is one leaf and reports them in index order.
\* KDTree converts the nodes to one array, whatever their Python types.
FindNearby(ns, point) ==
    LET RECURSIVE collect(_)
        collect(i) ==
            IF i = Len(ns) THEN << >>
            ELSE IF Dist2(point, Node(ns, i)) <= Sq(search_radius)
                 THEN <<i>> \o collect(i + 1)
                 ELSE collect(i + 1)
    IN collect(0)

-----------------------------------------------------------------------------
(* Steering                                                                *)

\* line 273: to_config - from_config
SteerRaises(from_type, to_type) == SubRaises(to_type, from_type)

\* variant of StepToward that steps away from to_config
StepTowardAway(from_config, to_config) ==
    LET dist == Norm(from_config, to_config)
    IN [k \in 1..Len(from_config) |->
            from_config[k] - (step_size * (to_config[k] - from_config[k])) \div dist]

\* lines 282-283: dir_vec = (to - from) / dist, from_config + step_size * dir_vec
StepToward(from_config, to_config) ==
    LET dist == Norm(from_config, to_config)
    IN [k \in 1..Len(from_config) |->
            from_config[k] + (step_size * (to_config[k] - from_config[k])) \div dist]

\* the configuration _steer tests for validity (lines 277 and 286)
SteerCandidate(from_config, to_config) ==
    IF Dist2(to_config, from_config) < Sq(step_size)
    THEN to_config
    ELSE StepToward(from_config, to_config)

Steer(from_config, to_config) ==
    IF Dist2(to_config, from_config) < Sq(step_size)
    THEN IF IsCollisionFree(to_config) THEN to_config ELSE from_config
    ELSE LET new_config == StepToward(from_config, to_config)
         IN IF IsCollisionFree(new_config) THEN new_config ELSE from_config

\* Python type of the value _steer returns: to_config itself, from_config
\* itself, or the ndarray that from_config + step_size * dir_vec builds
SteerType(from_config, from_type, to_config, to_type) ==
    IF Dist2(to_config, from_config) < Sq(step_size)
    THEN IF IsCollisionFree(to_config) THEN to_type ELSE from_type
    ELSE IF IsCollisionFree(StepToward(from_config, to_config))
         THEN "ndarray"
         ELSE from_type

\* the step of _steer is an integer vector
ExactSteer(from_config, to_config) ==
    IF Dist2(to_config, from_config) < Sq(step_size)
    THEN TRUE
    ELSE /\ IsSquare(Dist2(to_config, from_config))
         /\ \A k \in 1..Len(from_config) :
              (step_size * (to_config[k] - from_config[k])) % Norm(from_config, to_config) = 0

-----------------------------------------------------------------------------
(* Choose parent, rewire, extract path                                     *)

\* line 309 evaluates self.nodes[idx] - new_node for every nearby index
ChooseParentRaises(ts, new_type, nearby_indices) ==
    \E k \in 1..Len(nearby_indices) : SubRaises(ts[nearby_indices[k] + 1], new_type)

\* position in nearby_indices of the entry that costs.sort puts first: the
\* sort is stable, so among equal costs the first entry of nearby_indices wins
FirstBySort(ns, cs, new_node, nearby_indices) ==
    CHOOSE k \in 1..Len(nearby_indices) :
        \A j \in 1..Len(nearby_indices) :
            LET ck == cs[nearby_indices[k] + 1]
                xk == Dist2(Node(ns, nearby_indices[k]), new_node)
                cj == cs[nearby_indices[j] + 1]
                xj == Dist2(Node(ns, nearby_indices[j]), new_node)
            IN /\ ~LessSum(cj, xj, ck, xk)
               /\ j < k => LessSum(ck, xk, cj, xj)

\* variant of ChooseParent that takes the last entry of nearby_indices (no sort)
ChooseParentLast(ns, cs, new_node, nearby_indices) ==
    IF nearby_indices = << >> \/ ~IsCollisionFree(new_node)
    THEN <<-1, Infinity>>
    ELSE LET idx == nearby_indices[Len(nearby_indices)]
         IN <<idx, cs[idx + 1] + Norm(Node(ns, idx), new_node)>>

\* variant of ChooseParent that leaves out the validity test of line 312
ChooseParentUnchecked(ns, cs, new_node, nearby_indices) ==
    IF nearby_indices = << >>
    THEN <<-1, Infinity>>
    ELSE LET first == FirstBySort(ns, cs, new_node, nearby_indices)
         IN <<nearby_indices[first],
              cs[nearby_indices[first] + 1] + Norm(Node(ns, nearby_indices[first]), new_node)>>

\* returns <<best parent index, cost to new node>>.  Line 312 tests the new
\* node, so either every entry has a finite cost or every entry has inf.
ChooseParent(ns, cs, new_node, nearby_indices) ==
    IF nearby_indices = << >>
    THEN <<-1, Infinity>>
    ELSE IF ~IsCollisionFree(new_node)
    THEN <<-1, Infinity>>
    ELSE LET first == FirstBySort(ns, cs, new_node, nearby_indices)
         IN <<nearby_indices[first],
              cs[nearby_indices[first] + 1] + Norm(Node(ns, nearby_indices[first]), new_node)>>

\* the results _choose_parent can return.  Where the sums of line 310 are
\* computed without rounding (the configurations and costs of the model are
\* the doubles of the code) the result is ChooseParent.  Where the unit of
\* the model is not a double, two sums that are equal in exact arithmetic
\* are results of different operations and differ in the last place, one
\* way or the other with the rounding of the norm; the sort of line 316
\* then puts either entry first, and every entry of minimum exact cost is
\* a result.
ChooseParentOutcomes(ns, cs, new_node, nearby_indices, exact_sums) ==
    IF exact_sums \/ nearby_indices = << >> \/ ~IsCollisionFree(new_node)
    THEN {ChooseParent(ns, cs, new_node, nearby_indices)}
    ELSE LET sum_less(j, k) ==
                 LessSum(cs[nearby_indices[j] + 1],
                         Dist2(Node(ns, nearby_indices[j]), new_node),
                         cs[nearby_indices[k] + 1],
                         Dist2(Node(ns, nearby_indices[k]), new_node))
             cheapest == {k \in 1..Len(nearby_indices) :
                             \A j \in 1..Len(nearby_indices) : ~sum_less(j, k)}
         IN {<<nearby_indices[k],
               cs[nearby_indices[k] + 1] + Norm(Node(ns, nearby_indices[k]), new_node)>> :
                k \in cheapest}

\* variant of CheaperThroughNew with <= for the < of line 343
CheaperOrEqualThroughNew(ns, cs, new_node_idx, idx) ==
    /\ cs[idx + 1] - cs[new_node_idx + 1] >= 0
    /\ Dist2(Node(ns, idx), Node(ns, new_node_idx)) <= Sq(cs[idx + 1] - cs[new_node_idx + 1])

\* variant of CheaperThroughNew with the comparison of line 343 reversed
CostlierThroughNew(ns, cs, new_node_idx, idx) ==
    \/ cs[idx + 1] - cs[new_node_idx + 1] <= 0
    \/ Dist2(Node(ns, idx), Node(ns, new_node_idx)) > Sq(cs[idx + 1] - cs[new_node_idx + 1])

\* cost_through_new < self.costs[idx], decided on the squares so that it is
\* exact for every pair of nodes
CheaperThroughNew(ns, cs, new_node_idx, idx) ==
    /\ cs[idx + 1] - cs[new_node_idx + 1] > 0
    /\ Dist2(Node(ns, idx), Node(ns, new_node_idx)) < Sq(cs[idx + 1] - cs[new_node_idx + 1])

\* _update_visualization(node_idx) raises ValueError: line 365 unpacks the
\* entries of self.debug_lines, which are 3-tuples (lines 458, 488, 379),
\* into the two names (start, end).  It returns before that for a node
\* without parent and does not enter the loop when debug_lines is empty.
UpdateVisualizationRaises(ps, node_idx, lines) ==
    ps[node_idx + 1] # -1 /\ lines > 0

\* variant of Rewire that walks the whole tree instead of nearby_indices
RewireWholeTree(ns, ts, ps, cs, lines, new_node_idx, nearby_indices) ==
    LET RECURSIVE loop(_, _, _, _)
        loop(idx, p, c, n) ==
            IF idx >= new_node_idx
            THEN [parents |-> p, costs |-> c, lines |-> n, raised |-> "none"]
            ELSE IF idx = p[new_node_idx + 1]
            THEN loop(idx + 1, p, c, n)
            ELSE IF SubRaises(ts[idx + 1], ts[new_node_idx + 1])
            THEN [parents |-> p, costs |-> c, lines |-> n, raised |-> "TypeError"]
            ELSE IF /\ CheaperThroughNew(ns, c, new_node_idx, idx)
                    /\ IsCollisionFree(Node(ns, new_node_idx))
            THEN LET p2 == [p EXCEPT ![idx + 1] = new_node_idx]
                     c2 == [c EXCEPT ![idx + 1] = c[new_node_idx + 1]
                                + Norm(Node(ns, idx), Node(ns, new_node_idx))]
                 IN IF UpdateVisualizationRaises(p2, idx, n)
                    THEN [parents |-> p2, costs |-> c2, lines |-> n, raised |-> "ValueError"]
                    ELSE loop(idx + 1, p2, c2, n + 1)
            ELSE loop(idx + 1, p, c, n)
    IN loop(0, ps, cs, lines)

\* variant of Rewire that sets the parent (line 347) and forgets the cost (line 348)
RewireKeepCost(ns, ts, ps, cs, lines, new_node_idx, nearby_indices) ==
    LET RECURSIVE loop(_, _, _, _)
        loop(k, p, c, n) ==
            IF k > Len(nearby_indices)
            THEN [parents |-> p, costs |-> c, lines |-> n, raised |-> "none"]
            ELSE LET idx == nearby_indices[k]
                 IN IF idx = p[new_node_idx + 1]
                    THEN loop(k + 1, p, c, n)
                    ELSE IF SubRaises(ts[idx + 1], ts[new_node_idx + 1])
                    THEN [parents |-> p, costs |-> c, lines |-> n, raised |-> "TypeError"]
                    ELSE IF /\ CheaperThroughNew(ns, c, new_node_idx, idx)
                            /\ IsCollisionFree(Node(ns, new_node_idx))
                    THEN LET p2 == [p EXCEPT ![idx + 1] = new_node_idx]
                         IN IF UpdateVisualizationRaises(p2, idx, n)
                            THEN [parents |-> p2, costs |-> c, lines |-> n,
                                  raised |-> "ValueError"]
                            ELSE loop(k + 1, p2, c, n + 1)
                    ELSE loop(k + 1, p, c, n)
    IN loop(1, ps, cs, lines)

\* variant of Rewire that sets the cost (line 348) and forgets the parent (line 347)
RewireKeepParent(ns, ts, ps, cs, lines, new_node_idx, nearby_indices) ==
    LET RECURSIVE loop(_, _, _, _)
        loop(k, p, c, n) ==
            IF k > Len(nearby_indices)
            THEN [parents |-> p, costs |-> c, lines |-> n, raised |-> "none"]
            ELSE LET idx == nearby_indices[k]
                 IN IF idx = p[new_node_idx + 1]
                    THEN loop(k + 1, p, c, n)
                    ELSE IF SubRaises(ts[idx + 1], ts[new_node_idx + 1])
                    THEN [parents |-> p, costs |-> c, lines |-> n, raised |-> "TypeError"]
                    ELSE IF /\ CheaperThroughNew(ns, c, new_node_idx, idx)
                            /\ IsCollisionFree(Node(ns, new_node_idx))
                    THEN LET c2 == [c EXCEPT ![idx + 1] = c[new_node_idx + 1]
                                        + Norm(Node(ns, idx), Node(ns, new_node_idx))]
                         IN IF UpdateVisualizationRaises(p, idx, n)
                            THEN [parents |-> p, costs |-> c2, lines |-> n,
                                  raised |-> "ValueError"]
                            ELSE loop(k + 1, p, c2, n + 1)
                    ELSE loop(k + 1, p, c, n)
    IN loop(1, ps, cs, lines)

\* _rewire: walks nearby_indices in order.  Line 341 subtracts the two
\* nodes; lines 347-348 set the parent and the cost; line 351 then calls
\* _update_visualization, whose ValueError leaves _rewire and plan with the
\* assignment done.  Returns the parents, the costs, len(debug_lines) and
\* what was raised.
Rewire(ns, ts, ps, cs, lines, new_node_idx, nearby_indices) ==
    LET RECURSIVE loop(_, _, _, _)
        loop(k, p, c, n) ==
            IF k > Len(nearby_indices)
            THEN [parents |-> p, costs |-> c, lines |-> n, raised |-> "none"]
            ELSE LET idx == nearby_indices[k]
                 IN IF idx = p[new_node_idx + 1]
                    THEN loop(k + 1, p, c, n)
                    ELSE IF SubRaises(ts[idx + 1], ts[new_node_idx + 1])
                    THEN [parents |-> p, costs |-> c, lines |-> n, raised |-> "TypeError"]
                    ELSE IF /\ CheaperThroughNew(ns, c, new_node_idx, idx)
                            /\ IsCollisionFree(Node(ns, new_node_idx))
                    THEN LET p2 == [p EXCEPT ![idx + 1] = new_node_idx]
                             c2 == [c EXCEPT ![idx + 1] = c[new_node_idx + 1]
                                        + Norm(Node(ns, idx), Node(ns, new_node_idx))]
                         IN IF UpdateVisualizationRaises(p2, idx, n)
                            THEN [parents |-> p2, costs |-> c2, lines |-> n,
                                  raised |-> "ValueError"]
                            ELSE loop(k + 1, p2, c2, n + 1)
                    ELSE loop(k + 1, p, c, n)
    IN loop(1, ps, cs, lines)

\* variant of ExtractPath whose walk stops at the root without adding it
ExtractPathBelowRoot(ns, ps, goal_idx) ==
    LET RECURSIVE walk(_)
        walk(current) ==
            IF ps[current + 1] = -1 THEN << >>
            ELSE walk(ps[current + 1]) \o <<Node(ns, current)>>
    IN walk(goal_idx)

\* _extract_path: follows the parents from goal_idx to -1 and reverses
ExtractPath(ns, ps, goal_idx) ==
    LET RECURSIVE walk(_)
        walk(current) ==
            IF current = -1 THEN << >>
            ELSE walk(ps[current + 1]) \o <<Node(ns, current)>>
    IN walk(goal_idx)

\* line 464: the new node is closer to the goal than goal_threshold; both
\* operands are wrapped in np.array, so the subtraction never raises
GoalReached(new_config, goal) == Dist2(goal, new_config) < Sq(goal_threshold)

\* variant of GoalAttachable that leaves out the validity test of the goal
GoalAttachableUnchecked(new_config, goal) == goal # new_config

\* line 468: the new node is not the goal itself (norm > 1e-6) and the goal is valid
GoalAttachable(new_config, goal) ==
    Dist2(new_config, goal) > 0 /\ IsCollisionFree(goal)

\* the index reached from idx after following at most k parent links
WalkUp(ps, idx, k) ==
    LET RECURSIVE up(_, _)
        up(current, n) ==
            IF current = -1 \/ n = 0 THEN current ELSE up(ps[current + 1], n - 1)
    IN up(idx, k)

\* the while loop of _extract_path terminates from goal_idx
ReachesRoot(ps, goal_idx) == WalkUp(ps, goal_idx, Len(ps)) = -1

\* line 501 evaluates node - goal_config for every node of the tree
ClosestToGoalRaises(ts, goal_t) ==
    \E i \in 1..Len(ts) : SubRaises(ts[i], goal_t)

\* dists_to_goal.index(min(dists_to_goal)) of the exhaustion branch
ClosestToGoal(ns, goal) == FindNearest(ns, goal)

-----------------------------------------------------------------------------
(* History: which nodes hang below a parent whose cost was lowered later   *)

Rewired(ps_before, ps_after) ==
    {i \in 0..(Len(ps_before) - 1) : ps_after[i + 1] # ps_before[i + 1]}

StaleAfter(st, ps_before, ps_after) ==
    LET r == Rewired(ps_before, ps_after)
    IN (st \ r) \cup {i \in 0..(Len(ps_after) - 1) : i \notin r /\ ps_after[i + 1] \in r}

NoStep == [kind |-> "none", random_config |-> << >>, nearest_idx |-> -1,
           new_config |-> << >>, nearby |-> << >>, new_idx |-> -1,
           goal_idx |-> -1, steered |-> FALSE]

NoReturn == [kind |-> "none", path |-> << >>, cost |-> 0, idx |-> -1, line |-> 0]

\* plan() left by an exception of the given kind raised at the given line
Raised(kind, line) == [kind |-> kind, path |-> << >>, cost |-> 0, idx |-> -1, line |-> line]

-----------------------------------------------------------------------------
(* plan(start_config, goal_config)                                         *)

NoCall == [fn |-> "none", arg |-> << >>]

NoValue == [kind |-> "none", value |-> << >>]

ValidityIdle ==
    /\ sim_joints = << >>
    /\ vc_pc = "off"
    /\ vc_call = NoCall
    /\ vc_ret = NoValue
    /\ vc_before = << >>

SmootherIdle ==
    /\ sm_pc = "off"
    /\ sm_path = << >>
    /\ sm_steps = 0
    /\ sm_ret = << >>

NoSample == [passed |-> FALSE]

SamplerIdle ==
    /\ sr_pc = "off"
    /\ sr_attempts = 0
    /\ sr_config = << >>
    /\ sr_ret = << >>
    /\ sr_hist = NoSample

TrackerIdle ==
    /\ n_obstacles = 0
    /\ latest_positions = << >>
    /\ latest_radius = << >>
    /\ ot_pc = "off"
    /\ ot_detections = << >>

PlannerIdle ==
    /\ nodes = << >>
    /\ node_types = << >>
    /\ costs = << >>
    /\ parents = << >>
    /\ max_iterations = 0
    /\ goal_sample_rate = 5
    /\ step_size = 0
    /\ search_radius = 0
    /\ goal_threshold = 0
    /\ base_height = 0
    /\ obstacles = << >>
    /\ debug_lines = 0
    /\ pc = "off"
    /\ iter = 0
    /\ start_config = << >>
    /\ goal_config = << >>
    /\ goal_type = "none"
    /\ ret = NoReturn
    /\ last = NoStep
    /\ stale = {}

IKIdle ==
    /\ use_shadow_client = TRUE
    /\ damping = 50
    /\ robot_joints = << >>
    /\ shadow_joints = << >>
    /\ ik_pc = "off"
    /\ ik_iter = 0
    /\ current_joints = << >>
    /\ ik_args = << >>
    /\ ik_ret = << >>
    /\ ik_hist = << >>

Init ==
    /\ SamplerIdle
    /\ TrackerIdle
    /\ IKIdle
    /\ ValidityIdle
    /\ SmootherIdle
    /\ nodes = << >>
    /\ node_types = << >>
    /\ costs = << >>
    /\ parents = << >>
    /\ max_iterations \in 0..MaxIter
    /\ goal_sample_rate = 5
    /\ step_size = 5
    /\ search_radius \in SearchRadii
    /\ goal_threshold = 2
    /\ base_height \in BaseHeights
    /\ obstacles \in ObstacleSets
    /\ debug_lines = 0
    /\ pc = "idle"
    /\ iter = 0
    /\ start_config = << >>
    /\ goal_config = << >>
    /\ goal_type = "none"
    /\ ret = NoReturn
    /\ last = NoStep
    /\ stale = {}

\* lines 411-415: the tree is the start configuration alone.  plan() can be
\* called on a new planner and again after an earlier call has returned or
\* raised; the histories of the model start afresh with the call.
PlanStart(start, start_type, goal, goal_t) ==
    /\ pc \in {"idle", "done", "raised"}
    /\ nodes' = <<start>>
    /\ node_types' = <<start_type>>
    /\ costs' = <<0>>
    /\ parents' = <<-1>>
    /\ debug_lines' = 0
    /\ start_config' = start
    /\ goal_config' = goal
    /\ goal_type' = goal_t
    /\ iter' = 0
    /\ pc' = "loop"
    /\ ret' = NoReturn
    /\ last' = NoStep
    /\ stale' = {}
    /\ UNCHANGED <<max_iterations, goal_sample_rate, step_size, search_radius,
                   goal_threshold, base_height, obstacles>>
    /\ UNCHANGED <<ikvars, vcvars, smvars, srvars, otvars>>

\* lines 85-89: clear_visualization removes the debug items and empties
\* debug_lines; it is called between calls of plan()
ClearVisualization ==
    /\ pc \in {"idle", "done", "raised"}
    /\ debug_lines' = 0
    /\ UNCHANGED <<nodes, node_types, costs, parents, max_iterations, goal_sample_rate,
                   step_size, search_radius, goal_threshold, base_height, obstacles,
                   pc, iter, start_config, goal_config, goal_type, ret, last, stale>>
    /\ UNCHANGED <<ikvars, vcvars, smvars, srvars, otvars>>

\* plan() is left by an exception raised at the given line; the tree is as
\* the statements before the raise left it
LoopRaises(kind, line, ns, ts, ps, cs, lines, st, step) ==
    /\ nodes' = ns
    /\ node_types' = ts
    /\ parents' = ps
    /\ costs' = cs
    /\ debug_lines' = lines
    /\ stale' = st
    /\ ret' = Raised(kind, line)
    /\ last' = [step EXCEPT !.kind = "raised"]
    /\ pc' = "raised"
    /\ UNCHANGED iter

\* lines 428-498: one pass of the loop body for the sample random_config of
\* Python type random_type.  Each local of the code is bound once, in the
\* order the code computes it.  exact_sums says whether the cost sums of
\* line 310 are computed without rounding (see ChooseParentOutcomes).
LoopBody(random_config, random_type, exact_sums) ==
    /\ pc = "loop"
    /\ iter < max_iterations
    /\ IF FindNearestRaises(node_types, random_type)
       THEN LoopRaises("TypeError", 127, nodes, node_types, parents, costs, debug_lines,
                       stale, [NoStep EXCEPT !.random_config = random_config])
       ELSE
       \E nearest_idx \in {FindNearest(nodes, random_config)} :
       \E from_config \in {Node(nodes, nearest_idx)} :
       \E from_type \in {node_types[nearest_idx + 1]} :
         IF SteerRaises(from_type, random_type)
         THEN LoopRaises("TypeError", 273, nodes, node_types, parents, costs, debug_lines,
                         stale, [NoStep EXCEPT !.random_config = random_config,
                                               !.nearest_idx = nearest_idx])
         ELSE
         \E new_config \in {Steer(from_config, random_config)} :
         \E new_type \in {SteerType(from_config, from_type, random_config, random_type)} :
         \E nearby_indices \in {FindNearby(nodes, new_config)} :
         \E step \in {[kind |-> "dropped", random_config |-> random_config,
                       nearest_idx |-> nearest_idx, new_config |-> new_config,
                       nearby |-> nearby_indices, new_idx |-> -1, goal_idx |-> -1,
                       steered |-> new_config # from_config]} :
           IF ChooseParentRaises(node_types, new_type, nearby_indices)
           THEN LoopRaises("TypeError", 309, nodes, node_types, parents, costs,
                           debug_lines, stale, step)
           ELSE
           \E cp \in ChooseParentOutcomes(nodes, costs, new_config, nearby_indices,
                                           exact_sums) :
             LET best_parent_idx == cp[1]
                 cost_to_new == cp[2]
                 new_node_idx == Len(nodes)
             IN IF best_parent_idx = -1
                THEN \* no valid parent found: continue
                     /\ iter' = iter + 1
                     /\ last' = step
                     /\ UNCHANGED <<nodes, node_types, costs, parents, debug_lines,
                                    pc, ret, stale>>
                ELSE \* lines 445-461: add the node and its debug line, rewire the tree
                     \E ns1 \in {Append(nodes, new_config)} :
                     \E ts1 \in {Append(node_types, new_type)} :
                     \E ps1 \in {Append(parents, best_parent_idx)} :
                     \E rw1 \in {Rewire(ns1, ts1, ps1, Append(costs, cost_to_new),
                                        debug_lines + 1, new_node_idx, nearby_indices)} :
                     \E st1 \in {StaleAfter(stale, ps1, rw1.parents)} :
                     \E step1 \in {[step EXCEPT !.new_idx = new_node_idx]} :
                       IF rw1.raised # "none"
                       THEN LoopRaises(rw1.raised,
                                       IF rw1.raised = "TypeError" THEN 341 ELSE 365,
                                       ns1, ts1, rw1.parents, rw1.costs, rw1.lines, st1, step1)
                       ELSE IF ~GoalReached(new_config, goal_config)
                       THEN /\ nodes' = ns1
                            /\ node_types' = ts1
                            /\ costs' = rw1.costs
                            /\ parents' = rw1.parents
                            /\ debug_lines' = rw1.lines
                            /\ stale' = st1
                            /\ iter' = iter + 1
                            /\ last' = [step1 EXCEPT !.kind = "inserted"]
                            /\ UNCHANGED <<pc, ret>>
                       ELSE IF GoalAttachable(new_config, goal_config)
                       THEN \* lines 469-490: goal node added below the new node
                            \E ns2 \in {Append(ns1, goal_config)} :
                            \E ts2 \in {Append(ts1, goal_type)} :
                            \E ps2 \in {Append(rw1.parents, new_node_idx)} :
                            \E cs2 \in {Append(rw1.costs, cost_to_new
                                                  + Norm(goal_config, new_config))} :
                            \E rw2 \in {Rewire(ns2, ts2, ps2, cs2, rw1.lines + 1,
                                               new_node_idx + 1, nearby_indices)} :
                            \E st2 \in {StaleAfter(st1, ps2, rw2.parents)} :
                            \E step2 \in {[step1 EXCEPT !.goal_idx = new_node_idx + 1]} :
                              IF rw2.raised # "none"
                              THEN LoopRaises(rw2.raised,
                                              IF rw2.raised = "TypeError" THEN 341 ELSE 365,
                                              ns2, ts2, rw2.parents, rw2.costs, rw2.lines,
                                              st2, step2)
                              ELSE /\ ReachesRoot(rw2.parents, new_node_idx + 1)
                                   /\ nodes' = ns2
                                   /\ node_types' = ts2
                                   /\ costs' = rw2.costs
                                   /\ parents' = rw2.parents
                                   /\ debug_lines' = rw2.lines
                                   /\ stale' = st2
                                   /\ ret' = [kind |-> "goal", idx |-> new_node_idx + 1,
                                              path |-> ExtractPath(ns2, rw2.parents,
                                                                   new_node_idx + 1),
                                              cost |-> rw2.costs[new_node_idx + 2],
                                              line |-> 498]
                                   /\ last' = [step2 EXCEPT !.kind = "goal"]
                                   /\ pc' = "done"
                                   /\ UNCHANGED iter
                       ELSE \* line 492: the new node is the goal node
                            /\ ReachesRoot(rw1.parents, new_node_idx)
                            /\ nodes' = ns1
                            /\ node_types' = ts1
                            /\ costs' = rw1.costs
                            /\ parents' = rw1.parents
                            /\ debug_lines' = rw1.lines
                            /\ stale' = st1
                            /\ ret' = [kind |-> "goal", idx |-> new_node_idx,
                                       path |-> ExtractPath(ns1, rw1.parents, new_node_idx),
                                       cost |-> rw1.costs[new_node_idx + 1],
                                       line |-> 498]
                            /\ last' = [step1 EXCEPT !.kind = "goal",
                                                     !.goal_idx = new_node_idx]
                            /\ pc' = "done"
                            /\ UNCHANGED iter
    /\ UNCHANGED <<max_iterations, goal_sample_rate, step_size, search_radius,
                   goal_threshold, base_height, obstacles, start_config, goal_config,
                   goal_type>>
    /\ UNCHANGED <<ikvars, vcvars, smvars, srvars, otvars>>

\* line 423-424: random.random() < goal_sample_rate, the sample is the goal
\* object itself.  random.random() is at least 0.0, so a rate of 0 never
\* takes this branch.
IterateGoalSample ==
    /\ goal_sample_rate > 0
    /\ LoopBody(goal_config, goal_type, TRUE)

\* line 426: random.random() is below 1.0; the sample comes from
\* _sample_random_config, which returns a list of uniform draws within the
\* joint limits (a valid one, or after 50 invalid draws an unchecked one)
IterateRandomSample ==
    /\ goal_sample_rate < 100
    /\ \E config \in SampleSet : LoopBody(config, "list", TRUE)

\* lines 500-508: the loop ran out, return the path to the node closest to
\* the goal; line 501 subtracts the goal from every node
Exhausted ==
    /\ pc = "loop"
    /\ iter = max_iterations
    /\ IF ClosestToGoalRaises(node_types, goal_type)
       THEN /\ ret' = Raised("TypeError", 501)
            /\ pc' = "raised"
       ELSE LET closest_idx == ClosestToGoal(nodes, goal_config)
            IN /\ ReachesRoot(parents, closest_idx)
               /\ ret' = [kind |-> "exhausted", idx |-> closest_idx,
                          path |-> ExtractPath(nodes, parents, closest_idx),
                          cost |-> costs[closest_idx + 1], line |-> 508]
               /\ pc' = "done"
    /\ UNCHANGED <<nodes, node_types, costs, parents, max_iterations, goal_sample_rate,
                   step_size, search_radius, goal_threshold, base_height, obstacles,
                   debug_lines, iter, start_config, goal_config, goal_type, last, stale>>
    /\ UNCHANGED <<ikvars, vcvars, smvars, srvars, otvars>>

Next ==
    \/ \E start \in StartSet, goal \in GoalSet, start_type \in ConfigTypes,
          goal_t \in ConfigTypes : PlanStart(start, start_type, goal, goal_t)
    \/ IterateGoalSample
    \/ IterateRandomSample
    \/ Exhausted
    \/ ClearVisualization

Spec == Init /\ [][Next]_vars

\* In exact arithmetic every value the code stores is an integer: in a
\* state inside the loop, for every sample (a pair of a configuration and
\* its Python type) that line 127 accepts, the step of _steer from the
\* nearest node is an integer vector, and the edge to every node of the
\* near set that becomes the parent of the new node, or is rewired below
\* it, has an integer length, as has the edge to an attached goal.
ExactFor(typed_samples, exact_sums) ==
    (pc = "loop" /\ iter < max_iterations) =>
        \A s \in typed_samples :
            ~FindNearestRaises(node_types, s[2]) =>
                LET t == s[1]
                    from_config == Node(nodes, FindNearest(nodes, t))
                    new_config == Steer(from_config, t)
                    nearby_indices == FindNearby(nodes, new_config)
                IN /\ ExactSteer(from_config, t)
                   /\ \A cp \in ChooseParentOutcomes(nodes, costs, new_config,
                                                     nearby_indices, exact_sums) :
                        cp[1] # -1 =>
                        /\ IsSquare(Dist2(Node(nodes, cp[1]), new_config))
                        /\ \A k \in 1..Len(nearby_indices) :
                             LET idx == nearby_indices[k]
                             IN (/\ costs[idx + 1] > cp[2]
                                 /\ Dist2(Node(nodes, idx), new_config)
                                        < Sq(costs[idx + 1] - cp[2]))
                                    => IsSquare(Dist2(Node(nodes, idx), new_config))
                        /\ GoalReached(new_config, goal_config)
                             => IsSquare(Dist2(new_config, goal_config))

\* On the inputs of Spec the integers of the model are the doubles of the
\* code, and the doubles compute every stored value without rounding.
ExactOnInputs ==
    ExactFor((SampleSet \X {"list"}) \cup {<<goal_config, goal_type>>}, TRUE)

-----------------------------------------------------------------------------
(* The planner in the scenario of two joints limited to [-pi, pi], no      *)
(* obstacles, start (0, 0), goal (1.0, 1.0), step_size 0.2, goal_threshold *)
(* 0.1 and the default search_radius 0.5, built with goal_sample_rate 0 so *)
(* that every sample is a uniform draw.  Joint angles are in units of      *)
(* 0.1 / 507 rad: 0.1 is 507, 0.2 is 1014, 0.5 is 2535, 1.0 is 5070 and pi *)
(* lies between 15927 and 15928.  In these units a step of length 0.2 in   *)
(* the direction (119, 120) / 169 is the integer vector (714, 720), and    *)
(* seven such steps end at (4998, 5040), at distance 78 from the goal.     *)
(* The unit is not a double: an integer n of the model stands for the      *)
(* double the code computes in place of n * 0.1 / 507, which differs from  *)
(* it by rounding.  A comparison of the code comes out as in the model     *)
(* wherever its two sides differ in exact arithmetic (NoBoundaryFor); the  *)
(* cost sums of _choose_parent for collinear nodes, which are equal in     *)
(* exact arithmetic, are the comparisons that rounding decides.            *)

\* iterations granted to plan in the scenario (1000 in the claim; a run
\* that returns within this bound returns within 1000)
MaxScenarioIter == 8

ScenarioStart == <<0, 0>>

ScenarioGoal == <<5070, 5070>>

\* draws of random.uniform(-pi, pi) per joint that the scenario enumerates:
\* two points on the ray from the start in direction (119, 120)
ScenarioSamples == {<<7140, 7200>>, <<15708, 15840>>}

InitScenario ==
    /\ SamplerIdle
    /\ TrackerIdle
    /\ IKIdle
    /\ ValidityIdle
    /\ SmootherIdle
    /\ nodes = << >>
    /\ node_types = << >>
    /\ costs = << >>
    /\ parents = << >>
    /\ max_iterations \in 0..MaxScenarioIter
    /\ goal_sample_rate = 0
    /\ step_size = 1014
    /\ search_radius = 2535
    /\ goal_threshold = 507
    /\ base_height = 0
    /\ obstacles = << >>
    /\ debug_lines = 0
    /\ pc = "idle"
    /\ iter = 0
    /\ start_config = << >>
    /\ goal_config = << >>
    /\ goal_type = "none"
    /\ ret = NoReturn
    /\ last = NoStep
    /\ stale = {}

\* line 426 with a draw from ScenarioSamples; line 424 is never taken with
\* goal_sample_rate 0
IterateScenarioSample ==
    /\ goal_sample_rate < 100
    /\ \E config \in ScenarioSamples : LoopBody(config, "list", FALSE)

NextScenario ==
    \/ \E start_type \in ConfigTypes, goal_t \in ConfigTypes :
          PlanStart(ScenarioStart, start_type, ScenarioGoal, goal_t)
    \/ IterateScenarioSample
    \/ Exhausted
    \/ ClearVisualization

SpecScenario == InitScenario /\ [][NextScenario]_vars

\* No comparison of the loop body other than the cost sums of _choose_parent
\* is decided by rounding: in a state inside the loop, for every sample that
\* line 127 accepts, the nearest node is nearer than every other node, the
\* distance to it is not step_size, no node is at distance search_radius
\* from the new node, the new node is not at distance goal_threshold from
\* the goal, and no node of the near set costs exactly as much through the
\* new node as it does now.
NoBoundaryFor(typed_samples) ==
    (pc = "loop" /\ iter < max_iterations) =>
        \A s \in typed_samples :
            ~FindNearestRaises(node_types, s[2]) =>
                LET t == s[1]
                    nearest_idx == FindNearest(nodes, t)
                    from_config == Node(nodes, nearest_idx)
                    new_config == Steer(from_config, t)
                    nearby_indices == FindNearby(nodes, new_config)
                IN /\ \A i \in Indices(nodes) :
                        i # nearest_idx => Dist2(Node(nodes, i), t) > Dist2(from_config, t)
                   /\ Dist2(from_config, t) # Sq(step_size)
                   /\ \A i \in Indices(nodes) :
                        Dist2(Node(nodes, i), new_config) # Sq(search_radius)
                   /\ Dist2(new_config, goal_config) # Sq(goal_threshold)
                   /\ \A cp \in ChooseParentOutcomes(nodes, costs, new_config,
                                                     nearby_indices, FALSE) :
                        \A k \in 1..Len(nearby_indices) :
                            LET idx == nearby_indices[k]
                            IN costs[idx + 1] >= cp[2] =>
                                  Dist2(Node(nodes, idx), new_config)
                                      # Sq(costs[idx + 1] - cp[2])

ExactOnScenarioInputs ==
    /\ ExactFor(ScenarioSamples \X {"list"}, FALSE)
    /\ NoBoundaryFor(ScenarioSamples \X {"list"})

-----------------------------------------------------------------------------
(* The validity checker as it runs on the simulator.  Every function saves *)
(* the arm joint positions, sets the hypothetical configuration, reads the *)
(* links and restores.  Each operator returns [value, sim]: the value the  *)
(* function returns and the joint state it leaves in the simulator.        *)

\* p.resetJointState(self.robot.id, idx, values[i]) for every arm joint
ResetJointStates(sim, values) == [i \in 1..Len(arm_idx) |-> values[i]]

\* lines 56-83
SimGetCurrentEEPose(sim, joint_positions) ==
    LET current_states == sim
        moved == ResetJointStates(sim, joint_positions)
    IN [value |-> LinkPos(moved, ee_idx),
        sim |-> ResetJointStates(moved, current_states)]

\* variant of SimIsStateInCollision whose early return (lines 173-177) does not restore
SimIsStateInCollisionNoRestore(sim, joint_pos) ==
    LET links_to_check == arm_idx \o <<ee_idx>>
        current_states == sim
        moved == ResetJointStates(sim, joint_pos)
    IN IF Len(obstacles) = 0
       THEN [value |-> FALSE, sim |-> moved]
       ELSE [value |-> \E l \in 1..Len(links_to_check) : \E o \in 1..Len(obstacles) :
                          TooClose(LinkPos(moved, links_to_check[l]), obstacles[o]),
             sim |-> ResetJointStates(moved, current_states)]

\* lines 145-205
SimIsStateInCollision(sim, joint_pos) ==
    LET links_to_check == arm_idx \o <<ee_idx>>
        current_states == sim
        moved == ResetJointStates(sim, joint_pos)
    IN IF Len(obstacles) = 0
       THEN [value |-> FALSE, sim |-> ResetJointStates(moved, current_states)]
       ELSE [value |-> \E l \in 1..Len(links_to_check) : \E o \in 1..Len(obstacles) :
                          TooClose(LinkPos(moved, links_to_check[l]), obstacles[o]),
             sim |-> ResetJointStates(moved, current_states)]

\* lines 207-231
SimIsEEHeightValid(sim, joint_pos) ==
    LET ee == SimGetCurrentEEPose(sim, joint_pos)
    IN [value |-> 5 * ee.value[3] > 5 * base_height + 32, sim |-> ee.sim]

\* lines 233-239: `and` evaluates the collision check only if the height check passed
SimIsCollisionFree(sim, joints) ==
    LET height == SimIsEEHeightValid(sim, joints)
    IN IF ~height.value
       THEN [value |-> FALSE, sim |-> height.sim]
       ELSE LET collision == SimIsStateInCollision(height.sim, joints)
            IN [value |-> ~collision.value, sim |-> collision.sim]

\* joint states the simulated robot can be in when the checker is called
SimStates == {<<0, 0>>, <<3, 4>>}

\* configurations the checker is asked about
ValidityConfigs == SampleSet \cup GoalSet \cup {<<0, 0>>, <<4, 3>>}

\* obstacle sets of the checker: those of the planner, and one with an
\* obstacle of radius 0 (the state of a slot without detection) whose centre
\* is 0.05 m from link 1 of the configurations with q[1] = 0
ValidityObstacleSets ==
    ObstacleSets \cup
    {<<[position |-> <<32, 0, 5>>, radius |-> 0], [position |-> <<120, 0, 5>>, radius |-> 5]>>}

InitValid ==
    /\ SamplerIdle
    /\ TrackerIdle
    /\ IKIdle
    /\ SmootherIdle
    /\ nodes = << >>
    /\ node_types = << >>
    /\ costs = << >>
    /\ parents = << >>
    /\ max_iterations = 0
    /\ goal_sample_rate = 5
    /\ step_size = 0
    /\ search_radius = 0
    /\ goal_threshold = 0
    /\ base_height \in BaseHeights
    /\ obstacles \in ValidityObstacleSets
    /\ debug_lines = 0
    /\ pc = "off"
    /\ iter = 0
    /\ start_config = << >>
    /\ goal_config = << >>
    /\ goal_type = "none"
    /\ ret = NoReturn
    /\ last = NoStep
    /\ stale = {}
    /\ sim_joints \in SimStates
    /\ vc_pc = "idle"
    /\ vc_call = NoCall
    /\ vc_ret = NoValue
    /\ vc_before = << >>

\* a call fn(arg) that returns result.value and leaves the simulator at result.sim
ValidityCall(fn, arg, result) ==
    /\ vc_pc = "idle"
    /\ vc_call' = [fn |-> fn, arg |-> arg]
    /\ vc_before' = sim_joints
    /\ vc_ret' = [kind |-> "value", value |-> result.value]
    /\ sim_joints' = result.sim
    /\ vc_pc' = "done"
    /\ UNCHANGED <<pvars, ikvars, smvars, srvars, otvars>>

CallGetCurrentEEPose(q) ==
    ValidityCall("_get_current_ee_pose", q, SimGetCurrentEEPose(sim_joints, q))

CallIsStateInCollision(q) ==
    ValidityCall("_is_state_in_collision", q, SimIsStateInCollision(sim_joints, q))

CallIsEEHeightValid(q) ==
    ValidityCall("_is_ee_height_valid", q, SimIsEEHeightValid(sim_joints, q))

CallIsCollisionFree(q) ==
    ValidityCall("_is_collision_free", q, SimIsCollisionFree(sim_joints, q))

NextValid ==
    \/ \E q \in ValidityConfigs : CallGetCurrentEEPose(q)
    \/ \E q \in ValidityConfigs : CallIsStateInCollision(q)
    \/ \E q \in ValidityConfigs : CallIsEEHeightValid(q)
    \/ \E q \in ValidityConfigs : CallIsCollisionFree(q)

SpecValid == InitValid /\ [][NextValid]_vars

-----------------------------------------------------------------------------
(* generate_smooth_trajectory.  The code interpolates in IEEE 754 binary64 *)
(* numbers (Python floats): every division, subtraction, multiplication    *)
(* and addition is rounded to the nearest representable number, ties to    *)
(* even.  The model computes these roundings exactly.  A float is a record *)
(* [neg, mant, exp] that stands for (-1)^neg * mant * 2^exp, with mant a   *)
(* natural number below 2^53 that is odd or zero; zero is the record Zero  *)
(* (Python's == does not tell -0.0 from 0.0), so two records are equal     *)
(* exactly when the floats compare equal.  A natural number is a sequence  *)
(* of limbs in 0 .. 4095, least significant first, without leading zero    *)
(* limbs.  The exponent is not bounded; FloatRangeOnInputs states that no  *)
(* number computed on the inputs of the model leaves the range of the      *)
(* normal binary64 numbers.                                                *)

\* significant bits of a binary64 number
FloatBits == 53

\* bits of a limb
LimbBits == 12

LimbBase == 4096

\* largest and smallest exponent of the leading bit of a normal binary64 number
MaxExponent == 1023

MinExponent == -1022

Pow2(k) ==
    LET RECURSIVE pow(_)
        pow(n) == IF n = 0 THEN 1 ELSE 2 * pow(n - 1)
    IN pow(k)

\* number of bits of the natural number n
BitLength(n) ==
    LET RECURSIVE len(_)
        len(m) == IF m = 0 THEN 0 ELSE 1 + len(m \div 2)
    IN len(n)

\* number of zero bits at the low end of the natural number n > 0
TrailingZeros(n) ==
    LET RECURSIVE count(_)
        count(m) == IF m % 2 = 1 THEN 0 ELSE 1 + count(m \div 2)
    IN count(n)

Zeros(n) == [i \in 1..n |-> 0]

BigNorm(a) ==
    LET RECURSIVE strip(_)
        strip(s) == IF s # << >> /\ s[Len(s)] = 0
                    THEN strip(SubSeq(s, 1, Len(s) - 1))
                    ELSE s
    IN strip(a)

Limb(a, i) == IF i <= Len(a) THEN a[i] ELSE 0

\* a < b
BigLess(a, b) ==
    LET RECURSIVE less(_)
        less(i) == IF i = 0 THEN FALSE
                   ELSE IF a[i] # b[i] THEN a[i] < b[i]
                   ELSE less(i - 1)
    IN IF Len(a) # Len(b) THEN Len(a) < Len(b) ELSE less(Len(a))

BigAdd(a, b) ==
    LET n == IF Len(a) >= Len(b) THEN Len(a) ELSE Len(b)
        RECURSIVE add(_, _)
        add(i, carry) ==
            IF i > n THEN (IF carry = 0 THEN << >> ELSE <<carry>>)
            ELSE LET s == Limb(a, i) + Limb(b, i) + carry
                 IN <<s % LimbBase>> \o add(i + 1, s \div LimbBase)
    IN BigNorm(add(1, 0))

\* a - b for a >= b
BigSub(a, b) ==
    LET RECURSIVE sub(_, _)
        sub(i, borrow) ==
            IF i > Len(a) THEN << >>
            ELSE LET d == a[i] - Limb(b, i) - borrow
                 IN IF d < 0 THEN <<d + LimbBase>> \o sub(i + 1, 1)
                    ELSE <<d>> \o sub(i + 1, 0)
    IN BigNorm(sub(1, 0))

\* a * d for a natural number d <= LimbBase
BigMulSmall(a, d) ==
    LET RECURSIVE mul(_, _)
        mul(i, carry) ==
            IF i > Len(a) THEN (IF carry = 0 THEN << >> ELSE <<carry>>)
            ELSE LET p == a[i] * d + carry
                 IN <<p % LimbBase>> \o mul(i + 1, p \div LimbBase)
    IN BigNorm(mul(1, 0))

BigMul(a, b) ==
    LET RECURSIVE mul(_)
        mul(i) == IF i > Len(b) THEN << >>
                  ELSE BigAdd(BigMulSmall(a, b[i]), <<0>> \o mul(i + 1))
    IN BigNorm(mul(1))

\* quotient and remainder of a by a natural number 0 < d <= LimbBase
BigDivSmall(a, d) ==
    LET RECURSIVE div(_, _)
        div(i, rem) ==
            IF i = 0 THEN [quot |-> << >>, rem |-> rem]
            ELSE LET cur == rem * LimbBase + a[i]
                     rest == div(i - 1, cur % d)
                 IN [quot |-> rest.quot \o <<cur \div d>>, rem |-> rest.rem]
        r == div(Len(a), 0)
    IN [quot |-> BigNorm(r.quot), rem |-> r.rem]

\* a * 2^k
BigShiftLeft(a, k) ==
    IF a = << >> THEN << >>
    ELSE Zeros(k \div LimbBits) \o BigMulSmall(a, Pow2(k % LimbBits))

\* a \div 2^k, and whether a bit that is not zero was shifted out
BigShiftRight(a, k) ==
    LET limbs == IF k \div LimbBits <= Len(a) THEN k \div LimbBits ELSE Len(a)
        d == BigDivSmall(SubSeq(a, limbs + 1, Len(a)), Pow2(k % LimbBits))
    IN [quot |-> d.quot,
        sticky |-> d.rem # 0 \/ \E i \in 1..limbs : a[i] # 0]

BigBitLength(a) ==
    IF a = << >> THEN 0 ELSE LimbBits * (Len(a) - 1) + BitLength(a[Len(a)])

BigIsOdd(a) == a # << >> /\ a[1] % 2 = 1

\* number of zero bits at the low end of a > 0
BigTrailingZeros(a) ==
    LET RECURSIVE count(_)
        count(i) == IF a[i] = 0 THEN LimbBits + count(i + 1) ELSE TrailingZeros(a[i])
    IN count(1)

\* the float 0.0
Zero == [neg |-> FALSE, mant |-> << >>, exp |-> 0]

\* the record of the number (-1)^neg * mant * 2^exp, mant of at most FloatBits bits
Canonical(neg, mant, exp) ==
    IF mant = << >> THEN Zero
    ELSE LET z == BigTrailingZeros(mant)
         IN [neg |-> neg, mant |-> BigShiftRight(mant, z).quot, exp |-> exp + z]

\* the float nearest to (-1)^neg * mant * 2^exp, ties to the even mantissa
FlRound(neg, mant, exp) ==
    LET drop == BigBitLength(mant) - FloatBits
    IN IF drop <= 0 THEN Canonical(neg, mant, exp)
       ELSE LET s == BigShiftRight(mant, drop - 1)
                q == BigShiftRight(s.quot, 1).quot
                up == BigIsOdd(s.quot) /\ (s.sticky \/ BigIsOdd(q))
            IN Canonical(neg, IF up THEN BigAdd(q, <<1>>) ELSE q, exp + drop)

\* a + b
FlAdd(a, b) ==
    LET e == IF a.exp < b.exp THEN a.exp ELSE b.exp
        ma == BigShiftLeft(a.mant, a.exp - e)
        mb == BigShiftLeft(b.mant, b.exp - e)
    IN IF a.neg = b.neg THEN FlRound(a.neg, BigAdd(ma, mb), e)
       ELSE IF BigLess(ma, mb) THEN FlRound(b.neg, BigSub(mb, ma), e)
       ELSE FlRound(a.neg, BigSub(ma, mb), e)

\* a - b
FlSub(a, b) ==
    FlAdd(a, IF b = Zero THEN Zero ELSE [b EXCEPT !.neg = ~b.neg])

\* a * b
FlMul(a, b) ==
    FlRound(a.neg # b.neg, BigMul(a.mant, b.mant), a.exp + b.exp)

\* bits of the quotient that FlDivInts computes below the binary point
DivBits == 72

\* line 112: step / smoothing_steps, true division of two ints with
\* 0 <= step <= smoothing_steps < LimbBase.  The quotient is cut off after
\* DivBits bits; a remainder is kept as one more bit, which is all that the
\* rounding needs to know of it.
FlDivInts(step, smoothing_steps) ==
    LET d == BigDivSmall(BigShiftLeft(<<step>>, DivBits), smoothing_steps)
    IN IF step = 0 THEN Zero
       ELSE IF d.rem = 0 THEN FlRound(FALSE, d.quot, -DivBits)
       ELSE FlRound(FALSE, BigAdd(BigShiftLeft(d.quot, 1), <<1>>), -DivBits - 1)

\* line 113
Interpolated(start, end, t) ==
    [j \in 1..Len(start) |-> FlAdd(start[j], FlMul(t, FlSub(end[j], start[j])))]

\* lines 111-114: the inner loop, step = 0 .. smoothing_steps
SmoothSegment(start, end, smoothing_steps) ==
    LET RECURSIVE loop(_)
        loop(step) ==
            IF step > smoothing_steps THEN << >>
            ELSE <<Interpolated(start, end, FlDivInts(step, smoothing_steps))>>
                     \o loop(step + 1)
    IN loop(0)

\* variant of GenerateSmoothTrajectory that returns early for the empty path only
GenerateSmoothTrajectoryEmptyOnly(path, smoothing_steps) ==
    IF Len(path) < 1 THEN path
    ELSE LET RECURSIVE loop(_)
             loop(i) ==
                 IF i > Len(path) - 1 THEN << >>
                 ELSE SmoothSegment(path[i], path[i + 1], smoothing_steps) \o loop(i + 1)
         IN loop(1)

\* lines 101-116 for a call that does not raise
GenerateSmoothTrajectory(path, smoothing_steps) ==
    IF Len(path) < 2 THEN path
    ELSE LET RECURSIVE loop(_)
             loop(i) ==
                 IF i > Len(path) - 1 THEN << >>
                 ELSE SmoothSegment(path[i], path[i + 1], smoothing_steps) \o loop(i + 1)
         IN loop(1)

\* longest path and largest smoothing_steps passed to the smoother
MaxPathLen == 3

MaxSmoothingSteps == 3

\* the float (-1)^neg * digits * 2^exp, the digits of the mantissa given in
\* groups of three hexadecimal digits, most significant first
Float(neg, digits, exp) ==
    Canonical(neg, BigNorm([i \in 1..Len(digits) |-> digits[Len(digits) + 1 - i]]), exp)

\* the floats that Python reads from the literals -0.3, 0.1, 0.5 and 1.0:
\* -0x1.3333333333333p-2, 0x1.999999999999ap-4, 0x1p-1 and 0x1p+0
MinusThreeTenths == Float(TRUE, <<\h013, \h333, \h333, \h333, \h333>>, -54)

OneTenth == Float(FALSE, <<\h019, \h999, \h999, \h999, \h99a>>, -56)

OneHalf == Float(FALSE, <<1>>, -1)

One == Float(FALSE, <<1>>, 0)

\* waypoints of the paths: [-0.3, 0.0], [0.1, 0.5], [0.5, 1.0], [1.0, -0.3]
SmoothConfigs == {<<MinusThreeTenths, Zero>>, <<OneTenth, OneHalf>>,
                  <<OneHalf, One>>, <<One, MinusThreeTenths>>}

SmoothPaths ==
    UNION {[1..n -> SmoothConfigs] : n \in 0..MaxPathLen}

InitSmooth ==
    /\ SamplerIdle
    /\ TrackerIdle
    /\ PlannerIdle
    /\ IKIdle
    /\ ValidityIdle
    /\ sm_pc = "idle"
    /\ sm_path = << >>
    /\ sm_steps = 0
    /\ sm_ret = << >>

\* a call generate_smooth_trajectory(path, smoothing_steps); with two or more
\* waypoints and smoothing_steps = 0 line 112 raises ZeroDivisionError
SmoothCall(path, smoothing_steps) ==
    /\ sm_pc = "idle"
    /\ sm_path' = path
    /\ sm_steps' = smoothing_steps
    /\ IF Len(path) >= 2 /\ smoothing_steps = 0
       THEN sm_pc' = "raised" /\ sm_ret' = << >>
       ELSE sm_pc' = "done" /\ sm_ret' = GenerateSmoothTrajectory(path, smoothing_steps)
    /\ UNCHANGED <<pvars, ikvars, vcvars, srvars, otvars>>

NextSmooth ==
    \E path \in SmoothPaths, smoothing_steps \in 0..MaxSmoothingSteps :
        SmoothCall(path, smoothing_steps)

SpecSmooth == InitSmooth /\ [][NextSmooth]_vars

\* x is zero or a normal binary64 number
InFloatRange(x) ==
    x = Zero \/ LET top == x.exp + BigBitLength(x.mant) - 1
                IN /\ BigBitLength(x.mant) <= FloatBits
                   /\ MinExponent <= top
                   /\ top <= MaxExponent

\* On the inputs of SpecSmooth no waypoint coordinate and no number that
\* lines 112-113 compute from the path of the call is subnormal, infinite
\* or not a number, so the model's floats are the code's.
FloatRangeOnInputs ==
    (sm_pc = "done" /\ Len(sm_path) >= 2) =>
        \A i \in 1..(Len(sm_path) - 1), step \in 0..sm_steps :
          \A j \in 1..Len(sm_path[i]) :
            LET start == sm_path[i]
                end == sm_path[i + 1]
                t == FlDivInts(step, sm_steps)
                difference == FlSub(end[j], start[j])
            IN /\ InFloatRange(start[j])
               /\ InFloatRange(end[j])
               /\ InFloatRange(t)
               /\ InFloatRange(difference)
               /\ InFloatRange(FlMul(t, difference))
               /\ InFloatRange(FlAdd(start[j], FlMul(t, difference)))

-----------------------------------------------------------------------------
(* DifferentialIKSolver.  Angles are in units of 1e-4 rad, poses in units  *)
(* of 1e-4, so that tolerance = 1e-3 is 10.                                *)

\* lines 122-130
joint_limits == << <<-29671, 29671>>, <<-18326, 18326>>, <<-29671, 29671>>,
                   <<-31416, 0>>, <<-29671, 29671>>, <<-873, 38223>>,
                   <<-29671, 29671>> >>

\* len(self.joint_indices) of the robot of the model
num_joints == 2

tolerance == 10

\* end-effector pose of the kinematic model at joint state q (p.getLinkState):
\* position and orientation are one integer each
IKPose(q) == [pos |-> q[1] + q[2], orn |-> q[1] - q[2]]

\* The update of lines 161-164 divides by 2 + self.damping.  The joint
\* states and targets of the model are multiples of IKLattice, chosen so
\* that on them every quotient the loop computes is an integer or is cut
\* off by the joint limits (ExactOnIKInputs): with damping 0.05 a step is
\* 40/41 of the remaining joint error, with damping 0.001 it is 2000/2001 of
\* it, with damping 0 it is all of it.
IKLattice == IF damping = 1 THEN 2001 ELSE 1681

OnLattice(a) == [i \in 1..Len(a) |-> IKLattice * a[i]]

\* joint states the displayed robot can have when solve() is called
IKRobotStates == {OnLattice(<<-12, 0>>), OnLattice(<<-11, -2>>)}

\* initial configurations: inside the limits, and below the lower limit of
\* the first joint
IKInitials == IKRobotStates \cup {OnLattice(<<-18, 0>>)}

\* a joint state beyond the lower limit of the first and the upper limit of
\* the second joint; its pose is a target no configuration within the limits
\* reaches
IKFarJoints == OnLattice(<<-20, 12>>)

IKTargets == {IKPose(q) : q \in IKRobotStates \cup {IKFarJoints}}

\* the kinematic model solve() computes on: the shadow robot if there is
\* one, else the displayed robot (lines 58-63, 75-80)
ModelJoints == IF use_shadow_client THEN shadow_joints ELSE robot_joints

\* get_current_ee_pose(use_shadow = self.use_shadow_client)
GetCurrentEEPoseIK == IKPose(ModelJoints)

\* lines 142-148: norms of the position and of the orientation error
PosErrorNorm(target) == Abs(target.pos - GetCurrentEEPoseIK.pos)

OrnErrorNorm(target) == Abs(target.orn - GetCurrentEEPoseIK.orn)

\* line 154
ErrorsBelowTolerance(target) ==
    PosErrorNorm(target) < tolerance /\ OrnErrorNorm(target) < tolerance

\* an error norm equal to tolerance: the norm line 154 compares is a rounded
\* double, and the rounding decides on which side of tolerance it falls
ErrorsAtTolerance(target) ==
    /\ PosErrorNorm(target) <= tolerance
    /\ OrnErrorNorm(target) <= tolerance
    /\ ~ErrorsBelowTolerance(target)

\* line 163 with the Jacobian of IKPose, J = [[1, 1], [1, -1]] (line 158):
\* J.T @ error, with error the position error followed by the orientation
\* error (line 151)
JTError(target) ==
    LET pos_error == target.pos - GetCurrentEEPoseIK.pos
        orn_error == target.orn - GetCurrentEEPoseIK.orn
    IN <<pos_error + orn_error, pos_error - orn_error>>

\* lines 161-164: np.linalg.solve(J.T @ J + self.damping * np.eye(n), J.T @ error);
\* J.T @ J is twice the identity, damping is in thousandths
DeltaQ(target) ==
    [i \in 1..num_joints |-> (1000 * JTError(target)[i]) \div (2000 + damping)]

\* variant of ApplyJointLimits without the upper-limit branch of lines 175-177
ApplyLowerLimitOnly(new_joints) ==
    [i \in 1..Len(new_joints) |->
        IF i > Len(joint_limits) THEN new_joints[i]
        ELSE IF new_joints[i] < joint_limits[i][1] THEN joint_limits[i][1]
        ELSE new_joints[i]]

\* lines 170-177
ApplyJointLimits(new_joints) ==
    [i \in 1..Len(new_joints) |->
        IF i > Len(joint_limits) THEN new_joints[i]
        ELSE IF new_joints[i] < joint_limits[i][1] THEN joint_limits[i][1]
        ELSE IF new_joints[i] > joint_limits[i][2] THEN joint_limits[i][2]
        ELSE new_joints[i]]

NoHistory == [measured_at |-> << >>, converged |-> FALSE, updates |-> 0,
              last_update |-> << >>, robot_before |-> << >>]

InitIK ==
    /\ SamplerIdle
    /\ TrackerIdle
    /\ PlannerIdle
    /\ ValidityIdle
    /\ SmootherIdle
    /\ use_shadow_client \in BOOLEAN
    \* 0.05 is the damping every caller in the repository passes, 0.001 the
    \* default of the constructor
    /\ damping \in IF use_shadow_client THEN {1, 50} ELSE {0}
    /\ robot_joints \in IKRobotStates
    \* lines 36-43: the shadow robot starts as a copy of the displayed robot
    /\ shadow_joints = IF use_shadow_client THEN robot_joints ELSE << >>
    /\ ik_pc = "idle"
    /\ ik_iter = 0
    /\ current_joints = << >>
    /\ ik_args = << >>
    /\ ik_ret = << >>
    /\ ik_hist = NoHistory

\* lines 119-136: entry of solve()
SolveStart(target, initial, max_iters) ==
    /\ ik_pc = "idle"
    /\ current_joints' = initial
    /\ shadow_joints' = IF use_shadow_client THEN initial ELSE shadow_joints
    /\ ik_args' = [target |-> target, initial |-> initial, max_iters |-> max_iters]
    /\ ik_iter' = 0
    /\ ik_pc' = "loop"
    /\ ik_hist' = [NoHistory EXCEPT !.robot_before = robot_joints]
    /\ UNCHANGED <<use_shadow_client, damping, robot_joints, ik_ret>>
    /\ UNCHANGED <<pvars, vcvars, smvars, srvars, otvars>>

\* lines 140-156 and 191: an iteration that finds both errors below tolerance
SolveConverged ==
    /\ ik_pc = "loop"
    /\ ik_iter < ik_args.max_iters
    /\ ErrorsBelowTolerance(ik_args.target) \/ ErrorsAtTolerance(ik_args.target)
    /\ ik_iter' = ik_iter + 1
    /\ ik_hist' = [ik_hist EXCEPT !.measured_at = ModelJoints, !.converged = TRUE]
    /\ ik_ret' = current_joints
    /\ ik_pc' = "done"
    /\ UNCHANGED <<use_shadow_client, damping, robot_joints, shadow_joints,
                   current_joints, ik_args>>
    /\ UNCHANGED <<pvars, vcvars, smvars, srvars, otvars>>

\* lines 140-189: an iteration that updates the joints by delta_q.
\* get_jacobian leaves the kinematic model at current_joints (lines 112-113),
\* lines 183-189 then move it to the clamped new configuration.
SolveUpdate ==
    LET delta_q == DeltaQ(ik_args.target)
        new_joints == ApplyJointLimits([i \in 1..num_joints |-> current_joints[i] + delta_q[i]])
    IN /\ ik_pc = "loop"
       /\ ik_iter < ik_args.max_iters
       /\ ~ErrorsBelowTolerance(ik_args.target)
       /\ current_joints' = new_joints
       /\ IF use_shadow_client
          THEN shadow_joints' = new_joints /\ UNCHANGED robot_joints
          ELSE robot_joints' = new_joints /\ UNCHANGED shadow_joints
       /\ ik_iter' = ik_iter + 1
       /\ ik_hist' = [ik_hist EXCEPT !.measured_at = ModelJoints,
                                     !.updates = @ + 1,
                                     !.last_update = new_joints]
       /\ UNCHANGED <<use_shadow_client, damping, ik_pc, ik_args, ik_ret>>
       /\ UNCHANGED <<pvars, vcvars, smvars, srvars, otvars>>

\* lines 138 and 191: the loop ran max_iters times
SolveExhausted ==
    /\ ik_pc = "loop"
    /\ ik_iter = ik_args.max_iters
    /\ ik_ret' = current_joints
    /\ ik_pc' = "done"
    /\ UNCHANGED <<use_shadow_client, damping, robot_joints, shadow_joints, ik_iter,
                   current_joints, ik_args, ik_hist>>
    /\ UNCHANGED <<pvars, vcvars, smvars, srvars, otvars>>

\* lines 70-115: a call of get_jacobian from outside solve.  The model it
\* works on is left at joint_positions (lines 112-113); the matrix it
\* returns is not part of the state.
GetJacobian(joint_positions, use_shadow) ==
    /\ ik_pc = "idle"
    /\ IF use_shadow /\ use_shadow_client
       THEN shadow_joints' = joint_positions /\ UNCHANGED robot_joints
       ELSE robot_joints' = joint_positions /\ UNCHANGED shadow_joints
    /\ ik_hist' = [NoHistory EXCEPT !.robot_before = robot_joints]
    /\ ik_pc' = "jacobian"
    /\ UNCHANGED <<use_shadow_client, damping, ik_iter, current_joints, ik_args, ik_ret>>
    /\ UNCHANGED <<pvars, vcvars, smvars, srvars, otvars>>

NextIK ==
    \/ \E target \in IKTargets, initial \in IKInitials, max_iters \in 0..MaxIKIters :
           SolveStart(target, initial, max_iters)
    \/ SolveConverged
    \/ SolveUpdate
    \/ SolveExhausted
    \/ \E joint_positions \in IKInitials, use_shadow \in BOOLEAN :
           GetJacobian(joint_positions, use_shadow)

SpecIK == InitIK /\ [][NextIK]_vars

\* On the inputs of SpecIK the integer model computes what the code computes:
\* whenever the loop updates, each component of delta_q is an integer or the
\* joint is clamped to the same limit whichever way the quotient is rounded,
\* and no error norm the loop tests equals tolerance.
ExactOnIKInputs ==
    (ik_pc = "loop" /\ ik_iter < ik_args.max_iters) =>
        /\ PosErrorNorm(ik_args.target) # tolerance
        /\ OrnErrorNorm(ik_args.target) # tolerance
        /\ ~ErrorsBelowTolerance(ik_args.target) =>
              \A i \in 1..num_joints :
                  \/ (1000 * JTError(ik_args.target)[i]) % (2000 + damping) = 0
                  \/ LET below == current_joints[i] + DeltaQ(ik_args.target)[i]
                     IN \/ below + 1 <= joint_limits[i][1]
                        \/ below >= joint_limits[i][2]

-----------------------------------------------------------------------------
(* _sample_random_config.  One uniform draw per joint between the joint's   *)
(* lower and upper limit; random.uniform(low, high) is                      *)
(* low + (high - low) * random.random() with random.random() in [0, 1), and *)
(* with the limits of the model that sum is computed without rounding, so a *)
(* draw is never the upper limit.  The draws of the model are the integer   *)
(* points of that half-open box.                                            *)

\* line 248
max_attempts == 50

\* line 252: [random.uniform(low, high) for low, high in zip(lower, upper)]
UniformConfigs ==
    {<<q1, q2>> : q1 \in lower_limits[1]..(upper_limits[1] - 1),
                  q2 \in lower_limits[2]..(upper_limits[2] - 1)}

\* variant of SampleAccepted that checks the end-effector height only
SampleAcceptedHeightOnly(config) == IsEEHeightValid(config)

\* line 255: the test that ends the loop
SampleAccepted(config) == IsCollisionFree(config)

InitSample ==
    /\ IKIdle
    /\ ValidityIdle
    /\ SmootherIdle
    /\ TrackerIdle
    /\ nodes = << >>
    /\ node_types = << >>
    /\ costs = << >>
    /\ parents = << >>
    /\ max_iterations = 0
    /\ goal_sample_rate = 5
    /\ step_size = 0
    /\ search_radius = 0
    /\ goal_threshold = 0
    /\ base_height \in BaseHeights
    /\ obstacles \in ObstacleSets
    /\ debug_lines = 0
    /\ pc = "off"
    /\ iter = 0
    /\ start_config = << >>
    /\ goal_config = << >>
    /\ goal_type = "none"
    /\ ret = NoReturn
    /\ last = NoStep
    /\ stale = {}
    /\ sr_pc = "loop"
    /\ sr_attempts = 0
    /\ sr_config = << >>
    /\ sr_ret = << >>
    /\ sr_hist = NoSample

\* lines 250-256: one pass of the for loop, which draws config and checks it
SampleAttempt(config) ==
    /\ sr_pc = "loop"
    /\ sr_attempts < max_attempts
    /\ sr_attempts' = sr_attempts + 1
    /\ sr_config' = config
    /\ IF SampleAccepted(config)
       THEN /\ sr_pc' = "done"
            /\ sr_ret' = config
            /\ sr_hist' = [passed |-> TRUE]
       ELSE UNCHANGED <<sr_pc, sr_ret, sr_hist>>
    /\ UNCHANGED <<pvars, ikvars, vcvars, smvars, otvars>>

\* lines 258-261: the loop ran out, a fresh draw is returned without a check
SampleFallback(config) ==
    /\ sr_pc = "loop"
    /\ sr_attempts = max_attempts
    /\ sr_pc' = "done"
    /\ sr_ret' = config
    /\ sr_hist' = [passed |-> FALSE]
    /\ UNCHANGED <<sr_attempts, sr_config>>
    /\ UNCHANGED <<pvars, ikvars, vcvars, smvars, otvars>>

NextSample ==
    \/ \E config \in UniformConfigs : SampleAttempt(config)
    \/ \E config \in UniformConfigs : SampleFallback(config)

SpecSample == InitSample /\ [][NextSample]_vars

-----------------------------------------------------------------------------
(* ObstacleTracker (src/src/obstacle_tracker/obstacle_tracker.py).  A       *)
(* detection is <<x, y, z, radius>> in units of 1/640 m.  The variable      *)
(* obstacles holds what get_all_obstacle_states returns to the planner.     *)

MaxObstacles == 2

MaxDetections == 3

Detections == {<<90, 0, 5, 5>>, <<50, 20, 15, 10>>, <<0, 150, 200, 15>>}

DetectionLists == UNION {[1..n -> Detections] : n \in 0..MaxDetections}

\* get_obstacle_state(obstacle_index), obstacle_index counted from 0
GetObstacleState(positions, radius, n, obstacle_index) ==
    IF ~(0 <= obstacle_index /\ obstacle_index < n)
    THEN [raised |-> "ValueError"]
    ELSE [position |-> positions[obstacle_index + 1],
          radius |-> radius[obstacle_index + 1]]

\* variant of GetAllObstacleStates that leaves out the entries of radius 0
GetAllObstacleStatesDetected(positions, radius, n) ==
    LET RECURSIVE collect(_)
        collect(i) ==
            IF i = n THEN << >>
            ELSE IF radius[i + 1] = 0
                 THEN collect(i + 1)
                 ELSE <<GetObstacleState(positions, radius, n, i)>> \o collect(i + 1)
    IN collect(0)

\* get_all_obstacle_states: [self.get_obstacle_state(i) for i in range(self.n_obstacles)]
GetAllObstacleStates(positions, radius, n) ==
    [i \in 1..n |-> GetObstacleState(positions, radius, n, i - 1)]

\* __init__(n_obstacles, exp_settings) with exp_settings given
InitTracker ==
    /\ IKIdle
    /\ ValidityIdle
    /\ SmootherIdle
    /\ SamplerIdle
    /\ n_obstacles \in 0..MaxObstacles
    /\ latest_positions = [i \in 1..n_obstacles |-> <<0, 0, 0>>]
    /\ latest_radius = [i \in 1..n_obstacles |-> 0]
    /\ ot_pc = "idle"
    /\ ot_detections = << >>
    /\ nodes = << >>
    /\ node_types = << >>
    /\ costs = << >>
    /\ parents = << >>
    /\ max_iterations = 0
    /\ goal_sample_rate = 5
    /\ step_size = 0
    /\ search_radius = 0
    /\ goal_threshold = 0
    /\ base_height = 0
    /\ obstacles = GetAllObstacleStates(latest_positions, latest_radius, n_obstacles)
    /\ debug_lines = 0
    /\ pc = "off"
    /\ iter = 0
    /\ start_config = << >>
    /\ goal_config = << >>
    /\ goal_type = "none"
    /\ ret = NoReturn
    /\ last = NoStep
    /\ stale = {}

\* update(detections): detection i overwrites entry i while i < n_obstacles;
\* the other entries and the detections beyond n_obstacles are left alone
Update(detections) ==
    /\ ot_pc \in {"idle", "updated"}
    /\ latest_positions' =
          [i \in 1..n_obstacles |->
              IF i <= Len(detections)
              THEN <<detections[i][1], detections[i][2], detections[i][3]>>
              ELSE latest_positions[i]]
    /\ latest_radius' =
          [i \in 1..n_obstacles |->
              IF i <= Len(detections) THEN detections[i][4] ELSE latest_radius[i]]
    /\ ot_detections' = detections
    /\ ot_pc' = "updated"
    /\ obstacles' = GetAllObstacleStates(latest_positions', latest_radius', n_obstacles)
    /\ UNCHANGED n_obstacles
    /\ UNCHANGED <<nodes, node_types, costs, parents, max_iterations, goal_sample_rate, step_size,
                   search_radius, goal_threshold, base_height, debug_lines,
                   pc, iter, start_config, goal_config, goal_type, ret, last, stale>>
    /\ UNCHANGED <<ikvars, vcvars, smvars, srvars>>

NextTracker == \E detections \in DetectionLists : Update(detections)

SpecTracker == InitTracker /\ [][NextTracker]_vars

-----------------------------------------------------------------------------
(* Properties of the planner                                               *)

\* cost(n) - cost(p) <= |n - p|, decided on the squares
WithinEdge(ns, cs, n, p) ==
    \/ cs[n + 1] - cs[p + 1] <= 0
    \/ Sq(cs[n + 1] - cs[p + 1]) <= Dist2(Node(ns, n), Node(ns, p))

NonRoot(ps) == {i \in 0..(Len(ps) - 1) : ps[i + 1] # -1}

\* C1 as stated: every configuration in the tree, the root included,
\* satisfies the validity check (height check passes, no obstacle collision).
C1_AllNodesValid ==
    \A i \in Indices(nodes) : IsCollisionFree(Node(nodes, i))

\* C1 amended: every configuration put into the tree by the choose-parent /
\* insert step or by the goal-attach step satisfies the validity check; the
\* root is start_config as passed to plan, whatever its validity.
C1_InsertedNodesValid ==
    /\ \A i \in Indices(nodes) : i >= 1 => IsCollisionFree(Node(nodes, i))
    /\ pc \in {"loop", "done", "raised"} => Node(nodes, 0) = start_config

\* a run with an invalid root in which an iteration stepped from the root
\* and inserted the configuration it reached
C1_Witness ==
    /\ pc = "loop"
    /\ ~IsCollisionFree(Node(nodes, 0))
    /\ last.kind = "inserted"
    /\ last.steered
    /\ parents[last.new_idx + 1] = 0
    /\ IsCollisionFree(Node(nodes, last.new_idx))

\* C2: from every tree node the walk along the parent indices reaches -1
\* within len(nodes) steps (no cycle), and the path extracted for the node
\* starts with the root, which is start_config, and ends with the node.
C2_PathExtraction ==
    \A i \in Indices(nodes) :
        /\ ReachesRoot(parents, i)
        /\ LET path == ExtractPath(nodes, parents, i)
           IN /\ Len(path) >= 1
              /\ path[1] = start_config
              /\ path[1] = Node(nodes, 0)
              /\ path[Len(path)] = Node(nodes, i)

\* a tree with a rewired node (a node whose parent has a higher index than
\* itself) from which the walk passes the new parent on its way to the root
C2_Witness ==
    /\ Len(nodes) >= 4
    /\ \E i \in Indices(nodes) :
          /\ parents[i + 1] > i
          /\ Len(ExtractPath(nodes, parents, i)) >= 3

\* C3 as stated: every non-root node n has cost(n) <= cost(parent(n)) +
\* dist(parent(n), n), descendants of rewired nodes included.
C3_CostUpperBoundAll ==
    \A n \in NonRoot(parents) : WithinEdge(nodes, costs, n, parents[n + 1])

\* C3 amended: every non-root node n has cost(n) <= cost(parent(n)) +
\* dist(parent(n), n) unless parent(n) was rewired after n was attached to
\* it; the cost of such a node is not recomputed.
C3_CostUpperBoundFresh ==
    \A n \in NonRoot(parents) :
        n \notin stale => WithinEdge(nodes, costs, n, parents[n + 1])

\* a rewired node that has a child, next to a rewired node and nodes that were never rewired
C3_Witness ==
    /\ stale # {}
    /\ \E n \in NonRoot(parents) : n \notin stale /\ parents[n + 1] > n
    /\ \E n \in stale : ~WithinEdge(nodes, costs, n, parents[n + 1])

\* cost(m) + |m - idx| < c, decided on the squares
CheaperVia(ns, cs, m, idx, c) ==
    /\ c - cs[m + 1] > 0
    /\ Dist2(Node(ns, idx), Node(ns, m)) < Sq(c - cs[m + 1])

SeqRange(q) == {q[k] : k \in 1..Len(q)}

\* C4: a loop iteration that changes the parent of a node leaves that node
\* with a strictly smaller cost, and a node for which cost(new) + dist(new,
\* node) >= cost(node), for each node the iteration appended, keeps its
\* parent and its cost.
C4_RewireMonotonic ==
    [][pc = "loop" =>
        \A idx \in Indices(nodes) :
            /\ parents'[idx + 1] # parents[idx + 1] => costs'[idx + 1] < costs[idx + 1]
            /\ (\A m \in Len(nodes)..(Len(nodes') - 1) :
                    ~CheaperVia(nodes', costs', m, idx, costs[idx + 1]))
               => parents'[idx + 1] = parents[idx + 1] /\ costs'[idx + 1] = costs[idx + 1]
      ]_vars

\* an iteration whose near set held a node that was rewired and, before it,
\* another one, not the parent of the new node, that was kept
C4_Witness ==
    /\ last.new_idx # -1
    /\ \E a \in SeqRange(last.nearby) :
          /\ parents[a + 1] = last.new_idx
          /\ \E b \in SeqRange(last.nearby) :
                /\ b < a
                /\ b # parents[last.new_idx + 1]
                /\ parents[b + 1] # last.new_idx

\* C5: when the loop of plan has run max_iterations times, plan returns and
\* does not raise; the returned node is the lowest-indexed node of minimum
\* distance to the goal, the returned path is its parent chain from the root
\* (never empty, first element start_config), the returned cost is its
\* stored cost, and for max_iterations = 0 the result is [start_config] with
\* cost 0.
C5_ExhaustionResult ==
    (pc \in {"done", "raised"} /\ ret.line \in {501, 508}) =>
        /\ pc = "done"
        /\ ret.kind = "exhausted"
        /\ iter = max_iterations
        /\ ret.idx \in Indices(nodes)
        /\ \A j \in Indices(nodes) :
              \/ Dist2(Node(nodes, ret.idx), goal_config) < Dist2(Node(nodes, j), goal_config)
              \/ /\ Dist2(Node(nodes, ret.idx), goal_config) = Dist2(Node(nodes, j), goal_config)
                 /\ ret.idx <= j
        /\ Len(ret.path) >= 1
        /\ ret.path[1] = start_config
        /\ \A k \in 0..(Len(ret.path) - 1) :
              ret.path[Len(ret.path) - k] = Node(nodes, WalkUp(parents, ret.idx, k))
        /\ WalkUp(parents, ret.idx, Len(ret.path)) = -1
        /\ ret.cost = costs[ret.idx + 1]
        /\ max_iterations = 0 => ret.path = <<start_config>> /\ ret.cost = 0

\* C6: an iteration that inserts a node closer to the goal than
\* goal_threshold makes plan return, with a path whose last waypoint is
\* closer to the goal than goal_threshold; an iteration that inserts any
\* other node does not return; after the return the run makes no further
\* iteration (the tree changes again only when plan is called anew).
C6_GoalTermination ==
    [][/\ (pc = "loop" /\ Len(nodes') > Len(nodes)) =>
            IF Dist2(nodes'[Len(nodes) + 1], goal_config) < Sq(goal_threshold)
            THEN /\ pc' = "done"
                 /\ ret'.kind = "goal"
                 /\ Dist2(ret'.path[Len(ret'.path)], goal_config) < Sq(goal_threshold)
            ELSE pc' # "done"
       /\ (pc = "loop" /\ pc' = "done" /\ iter < max_iterations) => Len(nodes') > Len(nodes)
       /\ pc = "done" => \/ UNCHANGED <<nodes, node_types, costs, parents, iter, ret>>
                         \/ (pc' = "loop" /\ iter' = 0 /\ Len(nodes') = 1)
      ]_vars

\* C7: in a plan run no node is removed, the configuration at an existing
\* index never changes, and an iteration changes the parent or the cost of
\* an existing node only if that node is in the near set of the iteration
\* and is not the parent chosen for the new node.
C7_AppendOnly ==
    [][pc = "loop" =>
        /\ Len(nodes') >= Len(nodes)
        /\ Len(costs') = Len(nodes')
        /\ Len(parents') = Len(nodes')
        /\ \A idx \in Indices(nodes) :
              /\ Node(nodes', idx) = Node(nodes, idx)
              /\ (parents'[idx + 1] # parents[idx + 1] \/ costs'[idx + 1] # costs[idx + 1])
                 => /\ last'.new_idx = Len(nodes)
                    /\ idx \in SeqRange(last'.nearby)
                    /\ idx # parents'[last'.new_idx + 1]
      ]_vars

\* an iteration that rewired a node while the tree held a node outside its near set
C7_Witness ==
    /\ last.new_idx # -1
    /\ \E a \in SeqRange(last.nearby) : parents[a + 1] = last.new_idx
    /\ \E b \in Indices(nodes) : b < last.new_idx /\ b \notin SeqRange(last.nearby)

\* C21: whenever an iteration of plan changes the parent of an existing node,
\* through the rewire after the insertion of the new node or through the
\* rewire after the attachment of the goal node, the new parent lies within
\* search_radius of the node.
C21_RewireWithinRadius ==
    [][pc = "loop" =>
        \A idx \in Indices(nodes) :
            parents'[idx + 1] # parents[idx + 1] =>
                Dist2(Node(nodes', idx), Node(nodes', parents'[idx + 1])) <= Sq(search_radius)
      ]_vars

\* an iteration whose rewire moved a node of the near set below the new
\* node, at a positive distance of at most search_radius
C21_Witness ==
    /\ last.new_idx # -1
    /\ \E a \in SeqRange(last.nearby) :
          /\ parents[a + 1] = last.new_idx
          /\ Node(nodes, a) # Node(nodes, last.new_idx)
          /\ Dist2(Node(nodes, a), Node(nodes, last.new_idx)) <= Sq(search_radius)

\* the indices on the parent chain of node i, from i up to the root
Chain(ps, i) == {WalkUp(ps, i, k) : k \in 0..Len(ps)} \ {-1}

\* sum of the Euclidean edge lengths along the parent chain of node i
ChainLength(ns, ps, i) ==
    LET RECURSIVE sum(_, _)
        sum(current, fuel) ==
            IF ps[current + 1] = -1 \/ fuel = 0 THEN 0
            ELSE Norm(Node(ns, current), Node(ns, ps[current + 1]))
                 + sum(ps[current + 1], fuel - 1)
    IN sum(i, Len(ps))

\* sum of the distances between consecutive waypoints of a path
PathLength(path) ==
    LET RECURSIVE sum(_)
        sum(k) == IF k >= Len(path) THEN 0
                  ELSE Norm(path[k], path[k + 1]) + sum(k + 1)
    IN sum(1)

\* C22 as stated: in every reachable state the stored cost of every node
\* equals the sum of the Euclidean edge lengths along its parent chain to the
\* root, and the cost returned by plan equals the summed distance between
\* consecutive waypoints of the returned path.
C22_CostIsPathLength ==
    /\ \A i \in Indices(nodes) : costs[i + 1] = ChainLength(nodes, parents, i)
    /\ pc = "done" => ret.cost = PathLength(ret.path)

\* C22 amended: the stored cost of every node is at least the sum of the
\* edge lengths along its parent chain, and equals it when no node of the
\* chain hangs below a parent that was rewired after the node was attached;
\* the cost returned by plan equals the summed distance between consecutive
\* waypoints of the returned path.
C22_CostBoundsPathLength ==
    /\ \A i \in Indices(nodes) :
          /\ costs[i + 1] >= ChainLength(nodes, parents, i)
          /\ Chain(parents, i) \cap stale = {} =>
                costs[i + 1] = ChainLength(nodes, parents, i)
    /\ pc = "done" => ret.cost = PathLength(ret.path)

\* a node below a rewired parent carries a cost above the length of its
\* chain, while the rewired node carries exactly its chain length
C22_Witness ==
    /\ \E i \in Indices(nodes) :
          /\ Chain(parents, i) \cap stale # {}
          /\ costs[i + 1] > ChainLength(nodes, parents, i)
    /\ \E n \in NonRoot(parents) :
          /\ parents[n + 1] > n
          /\ costs[n + 1] = ChainLength(nodes, parents, n)

\* the larger of two numbers
Max(a, b) == IF a >= b THEN a ELSE b

\* C23 as stated: when plan returns through the goal branch, the returned
\* path has at least ceil(dist(start, goal) / step_size) edges, which is 8
\* in the scenario.
C23_MinimumDepthByStep ==
    (pc = "done" /\ ret.kind = "goal") =>
        Sq((Len(ret.path) - 1) * step_size) >= Dist2(start_config, goal_config)

\* C23 amended: when plan returns through the goal branch, no edge of the
\* returned path is longer than the larger of search_radius and
\* goal_threshold, so the path has at least dist(start, last waypoint)
\* divided by that length edges; edges longer than step_size occur.
C23_MinimumDepthByRadius ==
    (pc = "done" /\ ret.kind = "goal") =>
        LET longest == Max(search_radius, goal_threshold)
        IN /\ \A k \in 1..(Len(ret.path) - 1) :
                 Dist2(ret.path[k], ret.path[k + 1]) <= Sq(longest)
           /\ Sq((Len(ret.path) - 1) * longest)
                 >= Dist2(start_config, ret.path[Len(ret.path)])

\* plan returned the goal of the scenario along fewer than eight edges, one
\* of them longer than step_size
C23_Witness ==
    /\ pc = "done"
    /\ ret.kind = "goal"
    /\ goal_config = ScenarioGoal
    /\ ret.path[Len(ret.path)] = goal_config
    /\ Len(ret.path) - 1 < 8
    /\ \E k \in 1..(Len(ret.path) - 1) :
          Dist2(ret.path[k], ret.path[k + 1]) > Sq(step_size)

\* C24: an iteration that returns through the goal branch appends, when the
\* goal is valid and differs from the new node, exactly one goal node below
\* the new node with cost cost(new) + dist(new, goal), and plan returns a
\* path ending at the goal with that cost; otherwise it appends nothing after
\* the new node and plan returns a path ending at the new node with the new
\* node's cost.
C24_GoalAttachment ==
    [][(pc = "loop" /\ pc' = "done" /\ ret'.kind = "goal") =>
        LET new_node_idx == Len(nodes)
            new_config == Node(nodes', new_node_idx)
            path == ret'.path
        IN IF IsCollisionFree(goal_config) /\ new_config # goal_config
           THEN /\ Len(nodes') = Len(nodes) + 2
                /\ Node(nodes', new_node_idx + 1) = goal_config
                /\ parents'[new_node_idx + 2] = new_node_idx
                /\ costs'[new_node_idx + 2]
                      = costs'[new_node_idx + 1] + Norm(new_config, goal_config)
                /\ path[Len(path)] = goal_config
                /\ path[Len(path) - 1] = new_config
                /\ ret'.cost = costs'[new_node_idx + 2]
           ELSE /\ Len(nodes') = Len(nodes) + 1
                /\ path[Len(path)] = new_config
                /\ ret'.cost = costs'[new_node_idx + 1]
      ]_vars

\* plan returned a goal node that it attached below a new node which is not
\* a child of the root, at a cost above the new node's
C24_Witness ==
    /\ pc = "done"
    /\ ret.kind = "goal"
    /\ ret.idx = last.new_idx + 1
    /\ parents[ret.idx + 1] = last.new_idx
    /\ parents[last.new_idx + 1] # 0
    /\ IsCollisionFree(goal_config)
    /\ ret.cost > costs[last.new_idx + 1]

\* every coordinate lies between the joint's lower and upper limit
WithinJointLimits(q) ==
    \A i \in 1..Len(q) : lower_limits[i] <= q[i] /\ q[i] <= upper_limits[i]

\* C25: _sample_random_config makes at most 50 validity checks; while it
\* keeps drawing, no draw so far passed its check; a return from the loop
\* returns the draw that passed; after 50 failed checks it returns a fresh
\* draw without a check; every returned configuration lies within the joint
\* limits.
C25_BoundedSampling ==
    /\ sr_attempts <= max_attempts
    /\ (sr_pc = "loop" /\ sr_attempts > 0) => ~IsCollisionFree(sr_config)
    /\ sr_pc = "done" =>
          /\ WithinJointLimits(sr_ret)
          /\ IF sr_hist.passed
             THEN /\ IsCollisionFree(sr_ret)
                  /\ sr_ret = sr_config
                  /\ sr_attempts >= 1
             ELSE /\ sr_attempts = max_attempts
                  /\ ~IsCollisionFree(sr_config)

\* fifty draws failed and the fallback returned an invalid configuration
C25_Witness ==
    /\ sr_pc = "done"
    /\ ~sr_hist.passed
    /\ sr_attempts = max_attempts
    /\ ~IsCollisionFree(sr_ret)

\* C26: in a plan run whose start and goal lie within the joint limits,
\* every configuration stored in the tree and every waypoint of the returned
\* path lies within the joint limits.
C26_TreeWithinLimits ==
    (pc \in {"loop", "done", "raised"} /\ WithinJointLimits(start_config)
                                       /\ WithinJointLimits(goal_config)) =>
        /\ \A i \in Indices(nodes) : WithinJointLimits(Node(nodes, i))
        /\ pc = "done" => \A k \in 1..Len(ret.path) : WithinJointLimits(ret.path[k])

\* plan returned a path of at least two edges from a tree that holds a node
\* on the lower limit of the first joint, a node on the lower limit of the
\* second joint and two nodes a full step_size apart
C26_Witness ==
    /\ pc = "done"
    /\ WithinJointLimits(start_config)
    /\ WithinJointLimits(goal_config)
    /\ Len(ret.path) >= 3
    /\ \E i \in Indices(nodes) : Node(nodes, i)[1] = lower_limits[1]
    /\ \E i \in Indices(nodes) : Node(nodes, i)[2] = lower_limits[2]
    /\ \E i \in Indices(nodes) : \E j \in Indices(nodes) :
          /\ i < j
          /\ Dist2(Node(nodes, i), Node(nodes, j)) = Sq(step_size)

\* cost(n) - cost(p) >= |n - p|, decided on the squares
AtLeastEdge(ns, cs, n, p) ==
    /\ cs[n + 1] - cs[p + 1] >= 0
    /\ Sq(cs[n + 1] - cs[p + 1]) >= Dist2(Node(ns, n), Node(ns, p))

\* C29: in every state of a plan run every non-root node n has cost(n) >=
\* cost(parent(n)) + dist(parent(n), n), and the root keeps cost 0 and
\* parent -1; so the stored costs never decrease from a node to its child.
C29_CostLowerBound ==
    pc \in {"loop", "done", "raised"} =>
        /\ costs[1] = 0
        /\ parents[1] = -1
        /\ NonRoot(parents) = Indices(nodes) \ {0}
        /\ \A n \in NonRoot(parents) :
              /\ AtLeastEdge(nodes, costs, n, parents[n + 1])
              /\ costs[n + 1] >= costs[parents[n + 1] + 1]

\* after a rewire whose near set held the root: the root is unchanged, a
\* node below the rewired node costs more than its parent's cost plus the
\* edge, and the rewired node costs exactly that
C29_Witness ==
    /\ pc \in {"loop", "done", "raised"}
    /\ 0 \in SeqRange(last.nearby)
    /\ parents[1] = -1
    /\ \E n \in NonRoot(parents) :
          /\ parents[n + 1] > n
          /\ WithinEdge(nodes, costs, n, parents[n + 1])
          /\ \E m \in NonRoot(parents) :
                /\ parents[m + 1] = n
                /\ ~WithinEdge(nodes, costs, m, n)

-----------------------------------------------------------------------------
(* Properties of the IK solver                                             *)

WithinLimits(q) ==
    \A i \in 1..Len(q) :
        i <= Len(joint_limits) => joint_limits[i][1] <= q[i] /\ q[i] <= joint_limits[i][2]

\* C8 as stated: for every call of solve, every joint angle of the returned
\* configuration lies within that joint's [lower, upper] limit.
C8_ReturnWithinLimits ==
    ik_pc = "done" => WithinLimits(ik_ret)

\* C8 amended: if the initial configuration lies within the joint limits or
\* solve applied at least one update, every joint angle of the returned
\* configuration lies within that joint's [lower, upper] limit.
C8_ReturnWithinLimitsAfterUpdate ==
    (ik_pc = "done" /\ (WithinLimits(ik_args.initial) \/ ik_hist.updates > 0))
        => WithinLimits(ik_ret)

\* solve started outside the limits, updated, and returned a configuration clamped to a limit
C8_Witness ==
    /\ ik_pc = "done"
    /\ ~WithinLimits(ik_args.initial)
    /\ ik_hist.updates > 0
    /\ \E i \in 1..num_joints : ik_ret[i] = joint_limits[i][2]

\* C9: solve enters at most max_iters iterations and returns a
\* configuration: the one at which both error norms were found below
\* tolerance if that happened, else the one produced by the last update (the
\* initial one if there was no update).
C9_ReturnsMeasuredOrLast ==
    ik_pc = "done" =>
        /\ ik_iter <= ik_args.max_iters
        /\ Len(ik_ret) = num_joints
        /\ IF ik_hist.converged
           THEN ik_ret = ik_hist.measured_at
           ELSE /\ ik_iter = ik_args.max_iters
                /\ ik_ret = IF ik_hist.updates = 0 THEN ik_args.initial
                            ELSE ik_hist.last_update

\* C10: when the target pose is the forward-kinematics pose of the initial
\* configuration, solve returns the initial configuration without having
\* applied an update, and if it tests for convergence at all it stops at the
\* first test.
C10_Idempotence ==
    (ik_pc = "done" /\ ik_args.target = IKPose(ik_args.initial)) =>
        /\ ik_ret = ik_args.initial
        /\ ik_hist.updates = 0
        /\ ik_args.max_iters >= 1 => ik_iter = 1 /\ ik_hist.converged

\* C11: when solve or get_jacobian has returned, the joint state of the
\* displayed robot in physics client 0 is what it was when the call was made.
C11_DisplayedRobotUntouched ==
    ik_pc \in {"done", "jacobian"} => robot_joints = ik_hist.robot_before

\* C30: at the error computation of every iteration of solve, the first
\* included, the joint state of the kinematic model that
\* get_current_ee_pose reads equals current_joints, with and without the
\* shadow client.
C30_ModelSynchronised ==
    [][(ik_pc = "loop" /\ ik_iter' = ik_iter + 1) => ModelJoints = current_joints]_vars

\* C17: in the scenario every return of plan through the goal branch happens
\* before the iterations are used up and returns a path that starts at the
\* start configuration and whose last waypoint is closer than goal_threshold
\* to the goal; C17_Witness is such a return, reached by a sequence of samples.
C17_ScenarioGoalReturn ==
    (pc = "done" /\ ret.kind = "goal") =>
        /\ iter < max_iterations
        /\ Len(ret.path) >= 2
        /\ ret.path[1] = start_config
        /\ Dist2(ret.path[Len(ret.path)], goal_config) < Sq(goal_threshold)

\* plan returned through the goal branch from start (0, 0) to goal (1.0, 1.0)
\* with the tree grown seven steps deep
C17_Witness ==
    /\ pc = "done"
    /\ ret.kind = "goal"
    /\ start_config = ScenarioStart
    /\ goal_config = ScenarioGoal
    /\ step_size = 1014
    /\ goal_threshold = 507
    /\ \E i \in Indices(nodes) : Dist2(Node(nodes, i), start_config) = Sq(7 * step_size)
    /\ ret.path[Len(ret.path)] = goal_config

\* the loop body of plan ran once in this step
IterationStep == pc = "loop" /\ iter < max_iterations /\ (iter' # iter \/ pc' # pc)

\* C18: in an iteration whose steered candidate fails the validity check,
\* _steer yields the nearest node itself and the iteration leaves the nodes,
\* parents and costs of the tree as they were.
C18_FailedSteerNoOp ==
    [][(/\ IterationStep
        /\ last'.new_config # << >>
        /\ ~IsCollisionFree(SteerCandidate(Node(nodes, last'.nearest_idx),
                                           last'.random_config)))
        => /\ last'.new_config = Node(nodes, last'.nearest_idx)
           /\ nodes' = nodes
           /\ parents' = parents
           /\ costs' = costs
      ]_vars

\* the tree nodes within search_radius of the configuration q
NearSet(ns, q) == {n \in Indices(ns) : Dist2(Node(ns, n), q) <= Sq(search_radius)}

\* C19: when an iteration inserts its candidate, the candidate's parent is a
\* node of the near set, the stored cost is cost(parent) + dist(parent,
\* candidate), and no node of the near set offers a smaller cost + dist.
C19_ChooseParentOptimal ==
    [][(IterationStep /\ Len(nodes') > Len(nodes)) =>
        LET new_idx == Len(nodes)
            candidate == Node(nodes', new_idx)
            parent == parents'[new_idx + 1]
            stored == costs'[new_idx + 1]
        IN /\ parent \in NearSet(nodes, candidate)
           /\ stored = costs[parent + 1] + Norm(Node(nodes, parent), candidate)
           /\ \A n \in NearSet(nodes, candidate) :
                 stored <= costs[n + 1] + Norm(Node(nodes, n), candidate)
      ]_vars

\* an insertion whose near set had two or more nodes, one of which offered
\* a larger cost + dist than the parent that was chosen
C19_Witness ==
    /\ last.kind = "inserted"
    /\ Len(last.nearby) >= 2
    /\ \E n \in SeqRange(last.nearby) :
          costs[last.new_idx + 1] < costs[n + 1] + Norm(Node(nodes, n), Node(nodes, last.new_idx))

\* C20: in an iteration whose candidate has an empty near set or is invalid,
\* _choose_parent returns (-1, infinity), the tree keeps its nodes, parents
\* and costs, and plan goes on to the next iteration without returning.
C20_ParentlessDropped ==
    [][(/\ IterationStep
        /\ last'.new_config # << >>
        /\ \/ NearSet(nodes, last'.new_config) = {}
           \/ ~IsCollisionFree(last'.new_config))
        => /\ ChooseParent(nodes, costs, last'.new_config,
                           FindNearby(nodes, last'.new_config)) = <<-1, Infinity>>
           /\ nodes' = nodes
           /\ parents' = parents
           /\ costs' = costs
           /\ pc' = "loop"
           /\ iter' = iter + 1
           /\ ret' = ret
      ]_vars

-----------------------------------------------------------------------------
(* Properties of the validity checker                                      *)

CheckedLinks == {arm_idx[i] : i \in 1..Len(arm_idx)} \cup {ee_idx}

\* no checked link of the robot at q is closer than radius + 0.05 to an obstacle centre
ClearOfObstacles(q) ==
    \A link \in CheckedLinks : \A o \in 1..Len(obstacles) :
        Dist2(LinkPos(q, link), obstacles[o].position) >= Sq(obstacles[o].radius + 32)

\* the end effector at q is strictly higher than the base height plus 0.01
AboveTable(q) == 5 * LinkPos(q, ee_idx)[3] > 5 * base_height + 32

\* some checked link of the robot at q is exactly radius + 0.05 from an obstacle centre
TouchesMargin(q) ==
    \E link \in CheckedLinks : \E o \in 1..Len(obstacles) :
        Dist2(LinkPos(q, link), obstacles[o].position) = Sq(obstacles[o].radius + 32)

\* C12: _is_collision_free(q) is true exactly when the end effector at q is
\* strictly above base height + margin and no checked link is strictly
\* closer than radius + 0.05 to an obstacle centre; the two sub-checks return
\* these two facts, and without obstacles the collision check is false.
C12_ValidityPredicate ==
    vc_pc = "done" =>
        /\ vc_call.fn = "_is_collision_free" =>
               vc_ret.value = (AboveTable(vc_call.arg) /\ ClearOfObstacles(vc_call.arg))
        /\ vc_call.fn = "_is_ee_height_valid" => vc_ret.value = AboveTable(vc_call.arg)
        /\ vc_call.fn = "_is_state_in_collision" =>
               /\ vc_ret.value = ~ClearOfObstacles(vc_call.arg)
               /\ obstacles = << >> => vc_ret.value = FALSE

\* a configuration found valid although a link is exactly radius + 0.05 from an obstacle centre
C12_Witness ==
    /\ vc_pc = "done"
    /\ vc_call.fn = "_is_collision_free"
    /\ vc_ret.value = TRUE
    /\ TouchesMargin(vc_call.arg)

\* C13: when a call of _is_collision_free, _is_state_in_collision,
\* _is_ee_height_valid or _get_current_ee_pose has returned, the arm joint
\* positions of the simulator are the ones read when the call was made.
C13_ValidityCheckRestores ==
    vc_pc = "done" => sim_joints = vc_before

\* a collision check without obstacles on a configuration other than the simulator's
C13_Witness ==
    /\ vc_pc = "done"
    /\ vc_call.fn = "_is_state_in_collision"
    /\ obstacles = << >>
    /\ vc_call.arg # vc_before

-----------------------------------------------------------------------------
(* Properties of the trajectory smoother                                   *)

\* C14: for a path of two or more waypoints and smoothing_steps >= 1 the
\* first element of the smoothed trajectory equals the first waypoint and
\* the last element equals the last waypoint.
C14_EndpointPreservation ==
    (sm_pc = "done" /\ Len(sm_path) >= 2 /\ sm_steps >= 1) =>
        /\ sm_ret[1] = sm_path[1]
        /\ sm_ret[Len(sm_ret)] = sm_path[Len(sm_path)]

\* C15: for a path of k >= 2 waypoints the smoothed trajectory has
\* (k - 1) * (smoothing_steps + 1) entries, and the block of
\* smoothing_steps + 1 entries of each waypoint pair starts with the first
\* and ends with the second waypoint of the pair, so that every internal
\* waypoint stands twice in adjacent positions.
C15_SmoothingStructure ==
    (sm_pc = "done" /\ Len(sm_path) >= 2 /\ sm_steps >= 1) =>
        /\ Len(sm_ret) = (Len(sm_path) - 1) * (sm_steps + 1)
        /\ \A i \in 1..(Len(sm_path) - 1) :
              /\ sm_ret[(i - 1) * (sm_steps + 1) + 1] = sm_path[i]
              /\ sm_ret[i * (sm_steps + 1)] = sm_path[i + 1]

\* C16: for the empty path and for a path of one waypoint the call returns
\* the path it was given, whatever smoothing_steps is.
C16_ShortPathPassthrough ==
    (sm_pc # "idle" /\ Len(sm_path) < 2) => (sm_pc = "done" /\ sm_ret = sm_path)

\* a path of one waypoint passed with smoothing_steps = 0 and returned
C16_Witness ==
    /\ sm_pc = "done"
    /\ Len(sm_path) = 1
    /\ sm_steps = 0
    /\ sm_ret = sm_path

-----------------------------------------------------------------------------
(* Properties of the obstacle tracker                                      *)

\* the obstacle state that a detection stands for
StateOf(detection) ==
    [position |-> <<detection[1], detection[2], detection[3]>>, radius |-> detection[4]]

\* C27: after update(detections) every obstacle state returned by
\* get_all_obstacle_states is a detection of that update; no entry keeps
\* the position or radius it had before the update.
C27_ReplacedWholesale ==
    ot_pc = "updated" =>
        \A i \in 1..Len(obstacles) :
            \E k \in 1..Len(ot_detections) : obstacles[i] = StateOf(ot_detections[k])

\* C28: get_all_obstacle_states returns one entry for each of the
\* n_obstacles slots, before any update all of them with position (0, 0, 0)
\* and radius 0, so that the snapshot is empty, and the planner's shortcut
\* for an empty snapshot taken, exactly when n_obstacles = 0.
C28_SnapshotFixedSize ==
    /\ obstacles = GetAllObstacleStates(latest_positions, latest_radius, n_obstacles)
    /\ Len(obstacles) = n_obstacles
    /\ \A i \in 1..Len(obstacles) : DOMAIN obstacles[i] = {"position", "radius"}
    /\ ot_pc = "idle" =>
          \A i \in 1..Len(obstacles) :
              obstacles[i] = [position |-> <<0, 0, 0>>, radius |-> 0]
    /\ NoObstacleShortcut <=> n_obstacles = 0

\* a tracker of two obstacles after an update with one detection: two
\* entries, and the collision check runs against them
C28_Witness ==
    /\ ot_pc = "updated"
    /\ n_obstacles = 2
    /\ Len(ot_detections) = 1
    /\ Len(obstacles) = 2
    /\ ~NoObstacleShortcut
    /\ obstacles[2].radius = 0
    /\ IsStateInCollision(<<0, 0>>)

====
